---- MODULE Spec2Model ----
(***************************************************************************)
(* Persistence engine of the Intel Portal: StorageDB in its two Firestore  *)
(* variants (local-overflow: src/unnamed/part_003, remote-blob:            *)
(* src/js/storage.js lines 82-249) and its IndexedDB variant, the start-up *)
(* load and the report handlers of dashboard.js, the activity feed of      *)
(* admin.js and the search logging of activity.js.                         *)
(***************************************************************************)
EXTENDS Integers, Sequences, FiniteSets, TLC

VARIABLES
    variant,    \* which StorageDB module is loaded: "overflow" or "blob"
    mem,        \* the caller's report objects: id -> report.attachments
    remote,     \* Firestore collection "reports": id -> document
    overflow,   \* IndexedDB store "blobs": key -> dataUrl
    blobs,      \* Firebase Storage: path -> payload
    op,         \* the StorageDB call in flight (its promise and sub-requests)
    prev,       \* the StorageDB call that finished before op
    listView,   \* the value the last getAllReports() resolved with
    REPORTS,    \* the global in-memory report list (reports.js)
    clock,      \* milliseconds since the start-up load began
    timer,      \* the dbTimeout timer of the start-up load
    loadPc,     \* position of the start-up load block of dashboard.js
    diag,       \* console diagnostics emitted by the start-up load
    device,     \* the device whose IndexedDB the page has open
    batch,      \* the saveAllReports call in flight
    calls,      \* the StorageDB calls issued by the dashboard handlers
    events,     \* Firestore collection "activity"
    currentUnsubscribe,  \* admin.js: the unsubscribe function held, 0 = null
    listeners,  \* the onSnapshot listeners opened so far, oldest first
    activityFeed,        \* what the #activity-feed element shows
    searchTimer,         \* activity.js: _searchTimer, 0 = null
    timeouts,            \* the setTimeout timers of logSearch still pending
    searches             \* the logSearch calls made so far, oldest first

vars == <<variant, mem, remote, overflow, blobs, op, prev, listView,
          REPORTS, clock, timer, loadPc, diag,
          device, batch, calls,
          events, currentUnsubscribe, listeners, activityFeed,
          searchTimer, timeouts, searches>>

storageVars == <<variant, mem, remote, overflow, blobs, op, prev, listView>>
loadVars == <<REPORTS, clock, timer, loadPc, diag>>
feedVars == <<events, currentUnsubscribe, listeners, activityFeed>>
searchVars == <<searchTimer, timeouts, searches>>
extVars == <<device, batch, calls, feedVars, searchVars>>

----------------------------------------------------------------------------
(* Bounds of the model *)

MaxAtts == 2

MaxClock == 3002

\* The report ids in use, in the order orderBy("date", "desc") returns them
IdOrder == <<"RPT-2024-0001">>

ReportIds == {IdOrder[n] : n \in 1..Len(IdOrder)}

----------------------------------------------------------------------------
(* Program constants *)

MAX_INLINE_SIZE == 800000

DOC_CEILING == 1048576

DB_TIMEOUT_MS == 3000

----------------------------------------------------------------------------
(* Attachment values *)

NoKey == <<"", 0>>

NoPath == <<"", "">>

NoUrl == [kind |-> "none", bytes |-> 0, len |-> 0, key |-> NoKey]

NoStorageUrl == <<"", NoPath>>

\* reader.readAsDataURL(file): "data:application/pdf;base64," (28 characters)
\* followed by the base64 text of the file, 4 characters per 3 bytes.
DataUrlLen(size) == 28 + 4 * ((size + 2) \div 3)

ReadAsDataURL(pid, size) ==
    [kind |-> "data", bytes |-> pid, len |-> DataUrlLen(size), key |-> NoKey]

\* report.id + "_att_" + i, with i the 0-based index of the attachment
BlobKey(id, i) == <<id, i - 1>>

\* "local:" + blobKey: 6 + 13 + 5 + 1 characters
LocalRef(key) == [kind |-> "local", bytes |-> 0, len |-> 25, key |-> key]

\* JavaScript truthiness of att.dataUrl: null, undefined and "" are falsy
Truthy(d) == d.kind # "none" /\ d.len > 0

\* "attachments/" + reportId + "/" + fileName
StoragePath(id, name) == <<id, name>>

\* ref.getDownloadURL()
DownloadURL(path) == <<"https", path>>

\* atob(attClone.dataUrl.split(",")[1]) copied into a Blob
DataUrlToBlob(d) == d.bytes

Att(name, size, file, dataUrl, storageUrl, storagePath) ==
    [name |-> name, type |-> "application/pdf", size |-> size, file |-> file,
     dataUrl |-> dataUrl, storageUrl |-> storageUrl, storagePath |-> storagePath]


\* Attachments a caller can hand to StorageDB for report id: what
\* readFileAsAttachment produces (a data URL, or none after a read error),
\* a raw File, an attachment already uploaded, and one carrying all three.
AttInputs(id) ==
    { Att("a", 0, 0, ReadAsDataURL(1, 0), NoStorageUrl, NoPath),
      Att("a", 599979, 0, ReadAsDataURL(2, 599979), NoStorageUrl, NoPath),
      Att("b", 599980, 0, ReadAsDataURL(3, 599980), NoStorageUrl, NoPath),
      Att("b", 599979, 0, NoUrl, NoStorageUrl, NoPath),
      Att("b", 599980, 4, NoUrl, NoStorageUrl, NoPath),
      Att("c", 599980, 5, ReadAsDataURL(5, 599980),
          DownloadURL(StoragePath(id, "c")), StoragePath(id, "c")) }

SeqsUpTo(S, n) == UNION {[1..k -> S] : k \in 0..n}

ReportInputs(id) == SeqsUpTo(AttInputs(id), MaxAtts)

----------------------------------------------------------------------------
(* Stores: sets of key/value entries, one entry per key *)

Has(store, k) == \E e \in store : e.key = k

Get(store, k) == (CHOOSE e \in store : e.key = k).val

Put(store, k, v) == {e \in store : e.key # k} \cup {[key |-> k, val |-> v]}

Remove(store, k) == {e \in store : e.key # k}

NoDoc == [exists |-> FALSE, attachments |-> <<>>]

Doc(atts) == [exists |-> TRUE, attachments |-> atts]

----------------------------------------------------------------------------
(* The StorageDB call in flight *)

Idle ==
    [kind |-> "idle", id |-> "", phase |-> "done", sub |-> <<>>,
     docDel |-> "na", arg |-> <<>>, cleaned |-> <<>>, data |-> NoDoc,
     promise |-> "none",
     err |-> "", puts |-> <<>>, sets |-> 0]

Summary(o) ==
    [kind |-> o.kind, id |-> o.id, promise |-> o.promise, err |-> o.err,
     arg |-> o.arg, cleaned |-> o.cleaned, puts |-> o.puts]

\* saveReport, and saveAllReports with one report, which differ in writing
\* the document with doc.set or with batch.set and batch.commit
SaveKinds == {"save", "saveAll"}

\* The caller has the result of its previous call and nothing of that call
\* is still in flight.
CanStart ==
    /\ op.promise # "pending"
    /\ op.docDel # "pending"
    /\ \A i \in DOMAIN op.sub : op.sub[i] \notin {"pending", "put"}

\* Promise.all over the sub-requests: rejects with the first rejection
Reject(o, e) ==
    IF o.promise = "pending" THEN [o EXCEPT !.promise = "rejected", !.err = e]
    ELSE o

----------------------------------------------------------------------------
(* prepareForFirestore / saveReport, local-overflow variant *)

ExceedsInline_AtBudget(d) == Truthy(d) /\ d.len >= MAX_INLINE_SIZE

\* attClone.dataUrl && attClone.dataUrl.length > MAX_INLINE_SIZE
ExceedsInline(d) == Truthy(d) /\ d.len > MAX_INLINE_SIZE

\* The attClone the map callback returns for attachment i
PrepareOverflowAtt(id, atts, i) ==
    IF ExceedsInline(atts[i].dataUrl)
    THEN [atts[i] EXCEPT !.dataUrl = LocalRef(BlobKey(id, i))]
    ELSE atts[i]

PrepareOverflow(id, atts) ==
    [i \in 1..Len(atts) |-> PrepareOverflowAtt(id, atts, i)]

\* prepareForFirestore(report) runs up to its Promise.all, with one
\* saveBlobLocal request issued per oversized attachment.
PrepareForFirestoreOverflow(kind, id) ==
    /\ variant = "overflow"
    /\ CanStart
    /\ prev' = Summary(op)
    /\ op' = [Idle EXCEPT
                !.kind = kind, !.id = id, !.phase = "tier",
                !.promise = "pending", !.arg = mem[id],
                !.sub = [i \in 1..Len(mem[id]) |->
                            IF ExceedsInline(mem[id][i].dataUrl)
                            THEN "pending" ELSE "na"],
                !.puts = [i \in 1..Len(mem[id]) |-> 0],
                !.cleaned = PrepareOverflow(id, mem[id])]
    /\ UNCHANGED <<variant, mem, remote, overflow, blobs, listView>>
    /\ UNCHANGED <<loadVars, extVars>>

\* saveReport(report)
SaveReportOverflow(id) == PrepareForFirestoreOverflow("save", id)

\* saveAllReports([report]): the batch holds the one document
SaveAllReportsOverflow(id) == PrepareForFirestoreOverflow("saveAll", id)

\* saveBlobLocal: tx.oncomplete
SaveBlobLocalDone(i) ==
    /\ variant = "overflow" /\ op.kind \in SaveKinds
    /\ i \in DOMAIN op.sub /\ op.sub[i] = "pending"
    /\ overflow' = Put(overflow, BlobKey(op.id, i), mem[op.id][i].dataUrl)
    /\ op' = [op EXCEPT !.sub[i] = "done"]
    /\ UNCHANGED <<variant, mem, remote, blobs, prev, listView>>
    /\ UNCHANGED <<loadVars, extVars>>

\* saveBlobLocal: tx.onerror
SaveBlobLocalError(i) ==
    /\ variant = "overflow" /\ op.kind \in SaveKinds
    /\ i \in DOMAIN op.sub /\ op.sub[i] = "pending"
    /\ op' = Reject([op EXCEPT !.sub[i] = "failed"], "local-store")
    /\ UNCHANGED <<variant, mem, remote, overflow, blobs, prev, listView>>
    /\ UNCHANGED <<loadVars, extVars>>

----------------------------------------------------------------------------
(* uploadAttachment / prepareForFirestore / saveReport, remote-blob variant *)

\* Which branch of the map callback attachment att takes
UploadBranch(att) ==
    IF att.file # 0 THEN "file"
    ELSE IF Truthy(att.dataUrl) /\ att.storageUrl = NoStorageUrl THEN "dataUrl"
    ELSE "none"

\* The bytes handed to ref.put
UploadPayload(att) ==
    IF att.file # 0 THEN att.file ELSE DataUrlToBlob(att.dataUrl)

StripRaw_KeepDataUrl(att) == [att EXCEPT !.file = 0]

\* delete attClone.file; delete attClone.dataUrl
StripRaw(att) == [att EXCEPT !.file = 0, !.dataUrl = NoUrl]

WithLocator_KeepFile(id, att) ==
    [att EXCEPT
        !.storageUrl = DownloadURL(StoragePath(id, att.name)),
        !.storagePath = StoragePath(id, att.name)]

\* attClone.storageUrl = result.storageUrl; attClone.storagePath =
\* result.storagePath; delete attClone.file; delete attClone.dataUrl
WithLocator(id, att) ==
    [StripRaw(att) EXCEPT
        !.storageUrl = DownloadURL(StoragePath(id, att.name)),
        !.storagePath = StoragePath(id, att.name)]

\* prepareForFirestore(report) runs up to its Promise.all.
\* clone.attachments is report.attachments itself (Object.assign copies the
\* reference), so clone.attachments[i] = attClone replaces the entries of
\* the caller's array, and the "leave as-is" branch strips them at once.
PrepareForFirestoreBlob(kind, id) ==
    /\ variant = "blob"
    /\ CanStart
    /\ prev' = Summary(op)
    /\ op' = [Idle EXCEPT
                !.kind = kind, !.id = id, !.phase = "tier",
                !.promise = "pending", !.arg = mem[id],
                !.sub = [i \in 1..Len(mem[id]) |->
                            IF UploadBranch(mem[id][i]) = "none"
                            THEN "na" ELSE "pending"],
                !.puts = [i \in 1..Len(mem[id]) |->
                            IF UploadBranch(mem[id][i]) = "none"
                            THEN 0 ELSE 1]]
    /\ mem' = [mem EXCEPT ![id] =
                 [i \in 1..Len(mem[id]) |->
                    IF UploadBranch(mem[id][i]) = "none"
                    THEN StripRaw(mem[id][i]) ELSE mem[id][i]]]
    /\ UNCHANGED <<variant, remote, overflow, blobs, listView>>
    /\ UNCHANGED <<loadVars, extVars>>

\* saveReport(report)
SaveReportBlob(id) == PrepareForFirestoreBlob("save", id)

\* saveAllReports([report]): the batch holds the one document
SaveAllReportsBlob(id) == PrepareForFirestoreBlob("saveAll", id)

\* uploadAttachment: ref.put(fileData) fulfilled
UploadPutDone(i) ==
    /\ variant = "blob" /\ op.kind \in SaveKinds
    /\ i \in DOMAIN op.sub /\ op.sub[i] = "pending"
    /\ blobs' = Put(blobs, StoragePath(op.id, mem[op.id][i].name),
                    UploadPayload(mem[op.id][i]))
    /\ op' = [op EXCEPT !.sub[i] = "put"]
    /\ UNCHANGED <<variant, mem, remote, overflow, prev, listView>>
    /\ UNCHANGED <<loadVars, extVars>>

\* uploadAttachment: ref.put(fileData) rejected
UploadPutError(i) ==
    /\ variant = "blob" /\ op.kind \in SaveKinds
    /\ i \in DOMAIN op.sub /\ op.sub[i] = "pending"
    /\ op' = Reject([op EXCEPT !.sub[i] = "failed"], "storage")
    /\ UNCHANGED <<variant, mem, remote, overflow, blobs, prev, listView>>
    /\ UNCHANGED <<loadVars, extVars>>

\* uploadAttachment: ref.getDownloadURL() fulfilled, then the .then of
\* prepareForFirestore writes the locator into attClone
GetDownloadURLDone(i) ==
    /\ variant = "blob" /\ op.kind \in SaveKinds
    /\ i \in DOMAIN op.sub /\ op.sub[i] = "put"
    /\ mem' = [mem EXCEPT ![op.id][i] = WithLocator(op.id, @)]
    /\ op' = [op EXCEPT !.sub[i] = "done"]
    /\ UNCHANGED <<variant, remote, overflow, blobs, prev, listView>>
    /\ UNCHANGED <<loadVars, extVars>>

\* uploadAttachment: ref.getDownloadURL() rejected
GetDownloadURLError(i) ==
    /\ variant = "blob" /\ op.kind \in SaveKinds
    /\ i \in DOMAIN op.sub /\ op.sub[i] = "put"
    /\ op' = Reject([op EXCEPT !.sub[i] = "failed"], "storage")
    /\ UNCHANGED <<variant, mem, remote, overflow, blobs, prev, listView>>
    /\ UNCHANGED <<loadVars, extVars>>

----------------------------------------------------------------------------
(* saveReport: the document write, both variants *)

RECURSIVE SumLen(_)
\* Characters of attachment payload text in a document
SumLen(atts) ==
    IF atts = <<>> THEN 0
    ELSE atts[1].dataUrl.len + SumLen(Tail(atts))

AllPlaced_NoWait == TRUE

\* Promise.all(blobPromises / uploadPromises) has fulfilled
AllPlaced == \A i \in DOMAIN op.sub : op.sub[i] \in {"na", "done"}

\* .then(function (cleaned) { ... doc(report.id).set(cleaned) }); for
\* saveAllReports, batch.set(ref, cleaned) and then batch.commit()
FirestoreSet ==
    /\ op.kind \in SaveKinds /\ op.phase = "tier" /\ op.promise = "pending"
    /\ AllPlaced
    /\ op' = [op EXCEPT !.phase = "set", !.sets = @ + 1,
                        !.cleaned = IF variant = "blob" THEN mem[op.id] ELSE @]
    /\ UNCHANGED <<variant, mem, remote, overflow, blobs, prev, listView>>
    /\ UNCHANGED <<loadVars, extVars>>

\* set(cleaned) fulfilled: the document is replaced as a whole. Firestore
\* accepts the write only when the document is within its size limit.
SetDone ==
    /\ op.kind \in SaveKinds /\ op.phase = "set"
    /\ SumLen(op.cleaned) <= DOC_CEILING
    /\ remote' = [remote EXCEPT ![op.id] = Doc(op.cleaned)]
    /\ op' = [op EXCEPT !.phase = "done", !.promise = "resolved"]
    /\ UNCHANGED <<variant, mem, overflow, blobs, prev, listView>>
    /\ UNCHANGED <<loadVars, extVars>>

SetError_Swallowed(e) ==
    /\ op.kind \in SaveKinds /\ op.phase = "set"
    /\ e = "too-large" <=> SumLen(op.cleaned) > DOC_CEILING
    /\ op' = [op EXCEPT !.phase = "done", !.promise = "resolved"]
    /\ UNCHANGED <<variant, mem, remote, overflow, blobs, prev, listView>>
    /\ UNCHANGED <<loadVars, extVars>>

\* set(cleaned) rejected: saveReport has no catch, its promise rejects
SetError(e) ==
    /\ op.kind \in SaveKinds /\ op.phase = "set"
    /\ e = "too-large" <=> SumLen(op.cleaned) > DOC_CEILING
    /\ op' = [op EXCEPT !.phase = "done", !.promise = "rejected", !.err = e]
    /\ UNCHANGED <<variant, mem, remote, overflow, blobs, prev, listView>>
    /\ UNCHANGED <<loadVars, extVars>>

----------------------------------------------------------------------------
(* deleteAttachment / deleteReport *)

\* Promise.all(promises) fulfils once every sub-request has
SettleAll(o) ==
    IF /\ o.promise = "pending"
       /\ o.docDel = "done"
       /\ \A i \in DOMAIN o.sub : o.sub[i] \in {"na", "done"}
    THEN [o EXCEPT !.promise = "resolved", !.phase = "done"]
    ELSE o

\* deleteReport(id), local-overflow variant: doc(id).delete() and nothing else
DeleteReportOverflow(id) ==
    /\ variant = "overflow"
    /\ CanStart
    /\ prev' = Summary(op)
    /\ op' = [Idle EXCEPT !.kind = "delete", !.id = id, !.phase = "del",
                          !.promise = "pending", !.docDel = "pending"]
    /\ UNCHANGED <<variant, mem, remote, overflow, blobs, listView>>
    /\ UNCHANGED <<loadVars, extVars>>

\* deleteReport(id), remote-blob variant: doc(id).get() is issued
DeleteReportBlob(id) ==
    /\ variant = "blob"
    /\ CanStart
    /\ prev' = Summary(op)
    /\ op' = [Idle EXCEPT !.kind = "delete", !.id = id, !.phase = "get",
                          !.promise = "pending"]
    /\ UNCHANGED <<variant, mem, remote, overflow, blobs, listView>>
    /\ UNCHANGED <<loadVars, extVars>>

\* doc(id).get() fulfilled: one deleteAttachment per attachment with a
\* storagePath, and the document delete, are all issued in this callback
DeleteGetDone ==
    /\ op.kind = "delete" /\ op.phase = "get"
    /\ LET doc == remote[op.id]
       IN op' = [op EXCEPT
                   !.phase = "del", !.data = doc, !.docDel = "pending",
                   !.sub = [i \in 1..Len(doc.attachments) |->
                              IF doc.exists
                                 /\ doc.attachments[i].storagePath # NoPath
                              THEN "pending" ELSE "na"]]
    /\ UNCHANGED <<variant, mem, remote, overflow, blobs, prev, listView>>
    /\ UNCHANGED <<loadVars, extVars>>

\* doc(id).get() rejected
DeleteGetError ==
    /\ op.kind = "delete" /\ op.phase = "get"
    /\ op' = [op EXCEPT !.phase = "done", !.promise = "rejected",
                        !.err = "unavailable"]
    /\ UNCHANGED <<variant, mem, remote, overflow, blobs, prev, listView>>
    /\ UNCHANGED <<loadVars, extVars>>

BlobDeleteErrors == {"storage/object-not-found", "storage/unauthorized"}

CatchDelete_RethrowAll(code) == "failed"

CatchDelete_SwallowAll(code) == "done"

\* The .catch of deleteAttachment: "not found" is ignored, the rest rethrown
CatchDelete(code) ==
    IF code = "storage/object-not-found" THEN "done" ELSE "failed"

\* deleteAttachment: ref(storagePath).delete() fulfilled
DeleteAttachmentDone(i) ==
    /\ op.kind = "delete" /\ op.phase = "del"
    /\ i \in DOMAIN op.sub /\ op.sub[i] = "pending"
    /\ Has(blobs, op.data.attachments[i].storagePath)
    /\ blobs' = Remove(blobs, op.data.attachments[i].storagePath)
    /\ op' = SettleAll([op EXCEPT !.sub[i] = "done"])
    /\ UNCHANGED <<variant, mem, remote, overflow, prev, listView>>
    /\ UNCHANGED <<loadVars, extVars>>

\* deleteAttachment: ref(storagePath).delete() rejected with code. Firebase
\* Storage answers storage/object-not-found exactly when no object is there.
DeleteAttachmentError(i, code) ==
    /\ op.kind = "delete" /\ op.phase = "del"
    /\ i \in DOMAIN op.sub /\ op.sub[i] = "pending"
    /\ code = "storage/object-not-found"
         <=> ~Has(blobs, op.data.attachments[i].storagePath)
    /\ op' = IF CatchDelete(code) = "done"
             THEN SettleAll([op EXCEPT !.sub[i] = "done"])
             ELSE Reject([op EXCEPT !.sub[i] = "failed"], code)
    /\ UNCHANGED <<variant, mem, remote, overflow, blobs, prev, listView>>
    /\ UNCHANGED <<loadVars, extVars>>

\* doc(id).delete() fulfilled; deleting an absent document also fulfils
DocDeleteDone ==
    /\ op.kind = "delete" /\ op.phase = "del" /\ op.docDel = "pending"
    /\ remote' = [remote EXCEPT ![op.id] = NoDoc]
    /\ op' = SettleAll([op EXCEPT !.docDel = "done"])
    /\ UNCHANGED <<variant, mem, overflow, blobs, prev, listView>>
    /\ UNCHANGED <<loadVars, extVars>>

\* doc(id).delete() rejected
DocDeleteError ==
    /\ op.kind = "delete" /\ op.phase = "del" /\ op.docDel = "pending"
    /\ op' = Reject([op EXCEPT !.docDel = "failed"], "unavailable")
    /\ UNCHANGED <<variant, mem, remote, overflow, blobs, prev, listView>>
    /\ UNCHANGED <<loadVars, extVars>>

----------------------------------------------------------------------------
(* getAllReports *)

ListAttOverflow_KeepDataUrl(att) ==
    Att(att.name, att.size, 0, att.dataUrl, NoStorageUrl, NoPath)

\* { name: att.name, type: att.type, size: att.size }
ListAttOverflow(att) == Att(att.name, att.size, 0, NoUrl, NoStorageUrl, NoPath)

\* { name, type, size, storageUrl: att.storageUrl || null,
\*   storagePath: att.storagePath || null }
ListAttBlob(att) ==
    Att(att.name, att.size, 0, NoUrl, att.storageUrl, att.storagePath)

ListAtt(att) ==
    IF variant = "blob" THEN ListAttBlob(att) ELSE ListAttOverflow(att)

\* The reports array built in the .then of getAllReports from store
RECURSIVE ListFrom(_, _)
ListFrom(store, n) ==
    IF n > Len(IdOrder) THEN <<>>
    ELSE LET id == IdOrder[n]
             rest == ListFrom(store, n + 1)
         IN IF store[id].exists
            THEN <<[id |-> id,
                    attachments |->
                       [i \in 1..Len(store[id].attachments) |->
                          ListAtt(store[id].attachments[i])]]>> \o rest
            ELSE rest

\* getAllReports(): the collection query is issued
GetAllReports ==
    /\ CanStart
    /\ prev' = Summary(op)
    /\ op' = [Idle EXCEPT !.kind = "loadAll", !.phase = "get",
                          !.promise = "pending"]
    /\ UNCHANGED <<variant, mem, remote, overflow, blobs, listView>>

\* collection.orderBy("date", "desc").get() fulfilled
GetAllDone ==
    /\ op.kind = "loadAll" /\ op.phase = "get"
    /\ listView' = ListFrom(remote, 1)
    /\ op' = [op EXCEPT !.phase = "done", !.promise = "resolved"]
    /\ UNCHANGED <<variant, mem, remote, overflow, blobs, prev>>

\* collection.orderBy("date", "desc").get() rejected
GetAllError ==
    /\ op.kind = "loadAll" /\ op.phase = "get"
    /\ op' = [op EXCEPT !.phase = "done", !.promise = "rejected",
                        !.err = "unavailable"]
    /\ UNCHANGED <<variant, mem, remote, overflow, blobs, prev, listView>>

----------------------------------------------------------------------------
(* The storage engine driven by a caller that issues one call at a time *)

\* No feed on this page: admin.js is not loaded
FeedIdle ==
    /\ events = <<>> /\ currentUnsubscribe = 0 /\ listeners = <<>>
    /\ activityFeed = <<>>

\* No search typed: _searchTimer is null
SearchIdle == searchTimer = 0 /\ timeouts = {} /\ searches = <<>>

\* One device, no saveAllReports and no dashboard handler running
ExtIdle ==
    /\ device = "A" /\ batch = [status |-> "none", commits |-> 0] /\ calls = <<>>
    /\ FeedIdle
    /\ SearchIdle

LoadIdle ==
    /\ REPORTS = <<>> /\ clock = 0 /\ timer = "none"
    /\ loadPc = "off" /\ diag = <<>>

Init ==
    /\ variant \in {"overflow", "blob"}
    /\ mem \in {m \in [ReportIds -> UNION {ReportInputs(id) : id \in ReportIds}] :
                  \A id \in ReportIds : m[id] \in ReportInputs(id)}
    /\ remote = [id \in ReportIds |-> NoDoc]
    /\ overflow = {}
    /\ blobs = {}
    /\ op = Idle
    /\ prev = Summary(Idle)
    /\ listView = <<>>
    /\ LoadIdle
    /\ ExtIdle

\* getAllReports called from outside the start-up load
ListCall == GetAllReports /\ UNCHANGED <<loadVars, extVars>>

ListDone == GetAllDone /\ UNCHANGED <<loadVars, extVars>>

ListError == GetAllError /\ UNCHANGED <<loadVars, extVars>>

Next ==
    \/ \E id \in ReportIds : SaveReportOverflow(id)
    \/ \E id \in ReportIds : SaveAllReportsOverflow(id)
    \/ \E id \in ReportIds : SaveAllReportsBlob(id)
    \/ \E i \in 1..(MaxAtts + 1) : SaveBlobLocalDone(i)
    \/ \E i \in 1..(MaxAtts + 1) : SaveBlobLocalError(i)
    \/ \E id \in ReportIds : SaveReportBlob(id)
    \/ \E i \in 1..(MaxAtts + 1) : UploadPutDone(i)
    \/ \E i \in 1..(MaxAtts + 1) : UploadPutError(i)
    \/ \E i \in 1..(MaxAtts + 1) : GetDownloadURLDone(i)
    \/ \E i \in 1..(MaxAtts + 1) : GetDownloadURLError(i)
    \/ FirestoreSet
    \/ SetDone
    \/ \E e \in {"too-large", "unavailable"} : SetError(e)
    \/ \E id \in ReportIds : DeleteReportOverflow(id)
    \/ \E id \in ReportIds : DeleteReportBlob(id)
    \/ DeleteGetDone
    \/ DeleteGetError
    \/ \E i \in 1..(MaxAtts + 1) : DeleteAttachmentDone(i)
    \/ \E i \in 1..(MaxAtts + 1), code \in BlobDeleteErrors :
          DeleteAttachmentError(i, code)
    \/ DocDeleteDone
    \/ DocDeleteError
    \/ ListCall
    \/ ListDone
    \/ ListError

Spec == Init /\ [][Next]_vars

----------------------------------------------------------------------------
(* Start-up load of dashboard.js: getAllReports raced against dbTimeout *)

\* The attachments of a document an earlier saveReport wrote
StoredAtts(v, id, atts) ==
    [i \in 1..Len(atts) |->
        IF v = "overflow" THEN PrepareOverflowAtt(id, atts, i)
        ELSE IF UploadBranch(atts[i]) = "none" THEN StripRaw(atts[i])
        ELSE WithLocator(id, atts[i])]

StoredDocs(v, id) ==
    {NoDoc} \cup {Doc(StoredAtts(v, id, atts)) : atts \in
                    {a \in ReportInputs(id) :
                        SumLen(StoredAtts(v, id, a)) <= DOC_CEILING}}

LoadInit ==
    /\ variant \in {"overflow", "blob"}
    /\ mem = [id \in ReportIds |-> <<>>]
    /\ remote \in {r \in [ReportIds -> UNION {StoredDocs(variant, id) : id \in ReportIds}] :
                     \A id \in ReportIds : r[id] \in StoredDocs(variant, id)}
    /\ overflow = {}
    /\ blobs = {}
    /\ op = Idle
    /\ prev = Summary(Idle)
    /\ listView = <<>>
    /\ REPORTS = <<>>
    /\ clock = 0
    /\ timer = "none"
    /\ loadPc = "start"
    /\ diag = <<>>
    /\ ExtIdle

\* new Promise((_, reject) => setTimeout(..., 3000)) and
\* Promise.race([StorageDB.getAllReports(), dbTimeout]); the block awaits
StartupLoad ==
    /\ loadPc = "start"
    /\ GetAllReports
    /\ timer' = "armed"
    /\ loadPc' = "await"
    /\ UNCHANGED <<REPORTS, clock, diag>>
    /\ UNCHANGED extVars

\* Time passes; a due timer fires before time moves on
Tick(t) ==
    /\ t > clock /\ t <= MaxClock
    /\ timer = "armed" => t <= DB_TIMEOUT_MS
    /\ loadPc # "start"
    /\ clock' = t
    /\ UNCHANGED <<REPORTS, timer, loadPc, diag>>
    /\ UNCHANGED <<storageVars, extVars>>

LoadCatch_Rethrow(e) ==
    /\ REPORTS' = REPORTS
    /\ diag' = diag
    /\ loadPc' = "threw"

\* catch (e) { console.error("Failed to load from IndexedDB:", e); }
LoadCatch(e) ==
    /\ REPORTS' = REPORTS
    /\ diag' = Append(diag, [level |-> "error", e |-> e])
    /\ loadPc' = "done"

\* The race is won by getAllReports: the rest of the try block runs
StartupReadDone ==
    /\ loadPc = "await"
    /\ GetAllDone
    /\ IF Len(listView') > 0
       THEN /\ REPORTS' = listView'
            /\ diag' = Append(diag, [level |-> "log", e |-> "loaded"])
       ELSE UNCHANGED <<REPORTS, diag>>
    /\ loadPc' = "done"
    /\ UNCHANGED <<clock, timer>>
    /\ UNCHANGED extVars

\* The race is settled by the rejection of getAllReports
StartupReadError ==
    /\ loadPc = "await"
    /\ GetAllError
    /\ LoadCatch("unavailable")
    /\ UNCHANGED <<clock, timer>>
    /\ UNCHANGED extVars

LateRead_Applies ==
    /\ loadPc = "done"
    /\ GetAllDone
    /\ REPORTS' = listView'
    /\ UNCHANGED <<clock, timer, loadPc, diag>>
    /\ UNCHANGED extVars

\* getAllReports settles after the race was decided: nothing listens
LateRead ==
    /\ loadPc = "done"
    /\ GetAllDone \/ GetAllError
    /\ UNCHANGED <<loadVars, extVars>>

\* setTimeout callback: reject(new Error("DB timeout"))
TimerFire ==
    /\ timer = "armed" /\ clock >= DB_TIMEOUT_MS
    /\ timer' = "fired"
    /\ IF loadPc = "await" THEN LoadCatch("DB timeout")
       ELSE UNCHANGED <<REPORTS, diag, loadPc>>
    /\ UNCHANGED clock
    /\ UNCHANGED <<storageVars, extVars>>

LoadNext ==
    \/ StartupLoad
    \/ \E t \in {DB_TIMEOUT_MS - 1, DB_TIMEOUT_MS, DB_TIMEOUT_MS + 1, MaxClock} :
          Tick(t)
    \/ StartupReadDone
    \/ StartupReadError
    \/ LateRead
    \/ TimerFire

\* setTimeout callbacks run once they are due, and time passes
LoadSpec ==
    /\ LoadInit /\ [][LoadNext]_vars
    /\ WF_vars(StartupLoad)
    /\ WF_vars(\E t \in {DB_TIMEOUT_MS} : Tick(t))
    /\ WF_vars(TimerFire)

----------------------------------------------------------------------------
(* getReport / restoreFromFirestore / getBlobLocal *)

\* Promise.all(promises) of restoreFromFirestore fulfils once every
\* getBlobLocal promise has; a failed read resolves with null like a miss
SettleRestore(o) ==
    IF /\ o.promise = "pending"
       /\ \A i \in DOMAIN o.sub : o.sub[i] \in {"na", "done", "readerr"}
    THEN [o EXCEPT !.promise = "resolved", !.phase = "done"]
    ELSE o

\* att.dataUrl && att.dataUrl.indexOf("local:") === 0
IsLocalRef(d) == d.kind = "local"

\* getReport(id): doc(id).get() is issued
GetReport(id) ==
    /\ CanStart
    /\ prev' = Summary(op)
    /\ op' = [Idle EXCEPT !.kind = "get", !.id = id, !.phase = "get",
                          !.promise = "pending"]
    /\ UNCHANGED <<variant, mem, remote, overflow, blobs, listView>>
    /\ UNCHANGED <<loadVars, extVars>>

\* doc(id).get() fulfilled. An absent document gives null. The remote-blob
\* variant returns doc.data() as it is; the local-overflow variant runs
\* restoreFromFirestore, which issues one getBlobLocal per "local:" dataUrl.
GetReportDone ==
    /\ op.kind = "get" /\ op.phase = "get"
    /\ LET doc == remote[op.id]
           sub == [i \in 1..Len(doc.attachments) |->
                     IF variant = "overflow" /\ doc.exists
                        /\ IsLocalRef(doc.attachments[i].dataUrl)
                     THEN "pending" ELSE "na"]
       IN op' = SettleRestore([op EXCEPT !.phase = "restore", !.data = doc,
                                         !.sub = sub])
    /\ UNCHANGED <<variant, mem, remote, overflow, blobs, prev, listView>>
    /\ UNCHANGED <<loadVars, extVars>>

\* doc(id).get() rejected
GetReportError ==
    /\ op.kind = "get" /\ op.phase = "get"
    /\ op' = [op EXCEPT !.phase = "done", !.promise = "rejected",
                        !.err = "unavailable"]
    /\ UNCHANGED <<variant, mem, remote, overflow, blobs, prev, listView>>
    /\ UNCHANGED <<loadVars, extVars>>

BlobLocalResult_KeepRef(key) ==
    IF Has(overflow, key) THEN Get(overflow, key) ELSE LocalRef(key)

\* request.result ? request.result.dataUrl : null
BlobLocalResult(key) == IF Has(overflow, key) THEN Get(overflow, key) ELSE NoUrl

\* getBlobLocal: request.onsuccess, then att.dataUrl = dataUrl
GetBlobLocalDone(i) ==
    /\ op.kind = "get" /\ op.phase = "restore"
    /\ i \in DOMAIN op.sub /\ op.sub[i] = "pending"
    /\ LET res == BlobLocalResult(op.data.attachments[i].dataUrl.key)
       IN op' = SettleRestore([op EXCEPT !.sub[i] = "done",
                                  !.data.attachments[i].dataUrl = res])
    /\ UNCHANGED <<variant, mem, remote, overflow, blobs, prev, listView>>
    /\ UNCHANGED <<loadVars, extVars>>

\* getBlobLocal: request.onerror resolves with null, then att.dataUrl = null
GetBlobLocalError(i) ==
    /\ op.kind = "get" /\ op.phase = "restore"
    /\ i \in DOMAIN op.sub /\ op.sub[i] = "pending"
    /\ op' = SettleRestore([op EXCEPT !.sub[i] = "readerr",
                               !.data.attachments[i].dataUrl = NoUrl])
    /\ UNCHANGED <<variant, mem, remote, overflow, blobs, prev, listView>>
    /\ UNCHANGED <<loadVars, extVars>>

\* openLocalDB: request.onerror rejects, and with it getBlobLocal, the
\* Promise.all of restoreFromFirestore and getReport
OpenLocalDBError(i) ==
    /\ op.kind = "get" /\ op.phase = "restore"
    /\ i \in DOMAIN op.sub /\ op.sub[i] = "pending"
    /\ op' = Reject([op EXCEPT !.sub[i] = "failed"], "local-store")
    /\ UNCHANGED <<variant, mem, remote, overflow, blobs, prev, listView>>
    /\ UNCHANGED <<loadVars, extVars>>

\* The page is loaded anew on the same device: the report objects in memory
\* are gone, IndexedDB and the remote stores are as they were.
Restart ==
    /\ CanStart
    /\ \E id \in ReportIds : mem[id] # <<>>
    /\ mem' = [id \in ReportIds |-> <<>>]
    /\ UNCHANGED <<variant, remote, overflow, blobs, op, prev, listView>>
    /\ UNCHANGED <<loadVars, batch, calls, feedVars, searchVars, device>>

\* The page is opened on another device, whose IndexedDB holds nothing yet
\* and whose page has made no StorageDB call
OtherDevice ==
    /\ CanStart
    /\ device = "A"
    /\ device' = "B"
    /\ overflow' = {}
    /\ mem' = [id \in ReportIds |-> <<>>]
    /\ op' = Idle
    /\ prev' = Summary(Idle)
    /\ UNCHANGED <<variant, remote, blobs, listView>>
    /\ UNCHANGED <<loadVars, batch, calls, feedVars, searchVars>>

ReadNext ==
    \/ \E id \in ReportIds : SaveReportOverflow(id)
    \/ \E i \in 1..(MaxAtts + 1) : SaveBlobLocalDone(i)
    \/ \E i \in 1..(MaxAtts + 1) : SaveBlobLocalError(i)
    \/ \E id \in ReportIds : SaveReportBlob(id)
    \/ \E i \in 1..(MaxAtts + 1) : UploadPutDone(i)
    \/ \E i \in 1..(MaxAtts + 1) : UploadPutError(i)
    \/ \E i \in 1..(MaxAtts + 1) : GetDownloadURLDone(i)
    \/ \E i \in 1..(MaxAtts + 1) : GetDownloadURLError(i)
    \/ FirestoreSet
    \/ SetDone
    \/ \E e \in {"too-large", "unavailable"} : SetError(e)
    \/ \E id \in ReportIds : GetReport(id)
    \/ GetReportDone
    \/ GetReportError
    \/ \E i \in 1..(MaxAtts + 1) : GetBlobLocalDone(i)
    \/ \E i \in 1..(MaxAtts + 1) : GetBlobLocalError(i)
    \/ \E i \in 1..(MaxAtts + 1) : OpenLocalDBError(i)
    \/ Restart
    \/ OtherDevice

\* saveReport and getReport on one report, across restarts and devices
ReadSpec == Init /\ [][ReadNext]_vars

----------------------------------------------------------------------------
(* saveAllReports with several reports, all three StorageDB variants *)

\* Attachments per report of a batch
MaxBatchAtts == 1

\* The reports array handed to saveAllReports, in order
BatchOrder == <<"RPT-2024-0001", "RPT-2024-0002">>

BatchIds == {BatchOrder[n] : n \in 1..Len(BatchOrder)}

\* Attachments of the reports of a batch: an oversized dataUrl, one that
\* could not be read, and a raw File
BatchReportInputs(id) ==
    SeqsUpTo({a \in AttInputs(id) : a.name = "b"}, MaxBatchAtts)

\* Variables no step of saveAllReports touches
batchFrame == <<op, prev, listView, loadVars, device, calls, feedVars,
                searchVars>>

NoBatch == [status |-> "none", commits |-> 0]

BatchInit ==
    /\ variant \in {"overflow", "blob", "indexeddb"}
    /\ mem \in {m \in [BatchIds -> UNION {BatchReportInputs(id) : id \in BatchIds}] :
                  \A id \in BatchIds : m[id] \in BatchReportInputs(id)}
    /\ remote = [id \in BatchIds |-> NoDoc]
    /\ overflow = {}
    /\ blobs = {}
    /\ op = Idle
    /\ prev = Summary(Idle)
    /\ listView = <<>>
    /\ LoadIdle
    /\ ExtIdle

\* Whether prepareForFirestore issues a tier write for attachment att
NeedsTierWrite(att) ==
    IF variant = "overflow" THEN ExceedsInline(att.dataUrl)
    ELSE UploadBranch(att) # "none"

\* saveAllReports(reports), Firestore variants: fbDb.batch(), then
\* prepareForFirestore(report) for every report of the array
SaveAllReports ==
    /\ variant \in {"overflow", "blob"}
    /\ batch = NoBatch
    /\ batch' = [status |-> "prepare",
                 sub |-> [id \in BatchIds |->
                            [i \in 1..Len(mem[id]) |->
                               IF NeedsTierWrite(mem[id][i])
                               THEN "pending" ELSE "na"]],
                 set |-> [id \in BatchIds |-> FALSE],
                 cleaned |-> [id \in BatchIds |->
                                IF variant = "overflow"
                                THEN PrepareOverflow(id, mem[id]) ELSE <<>>],
                 commits |-> 0]
    /\ mem' = IF variant = "blob"
              THEN [id \in BatchIds |->
                      [i \in 1..Len(mem[id]) |->
                         IF UploadBranch(mem[id][i]) = "none"
                         THEN StripRaw(mem[id][i]) ELSE mem[id][i]]]
              ELSE mem
    /\ UNCHANGED <<variant, remote, overflow, blobs>>
    /\ UNCHANGED batchFrame

\* saveBlobLocal tx.oncomplete, or ref.put(fileData) fulfilled
BatchTierPut(id, i) ==
    /\ batch.status \in {"prepare", "commit", "resolved", "rejected"}
    /\ i \in DOMAIN batch.sub[id] /\ batch.sub[id][i] = "pending"
    /\ IF variant = "overflow"
       THEN /\ overflow' = Put(overflow, BlobKey(id, i), mem[id][i].dataUrl)
            /\ batch' = [batch EXCEPT !.sub[id][i] = "done"]
            /\ UNCHANGED blobs
       ELSE /\ blobs' = Put(blobs, StoragePath(id, mem[id][i].name),
                            UploadPayload(mem[id][i]))
            /\ batch' = [batch EXCEPT !.sub[id][i] = "put"]
            /\ UNCHANGED overflow
    /\ UNCHANGED <<variant, mem, remote>>
    /\ UNCHANGED batchFrame

\* ref.getDownloadURL() fulfilled, then the locator is written to attClone
BatchDownloadURL(id, i) ==
    /\ variant = "blob"
    /\ batch.status \in {"prepare", "commit", "resolved", "rejected"}
    /\ i \in DOMAIN batch.sub[id] /\ batch.sub[id][i] = "put"
    /\ mem' = [mem EXCEPT ![id][i] = WithLocator(id, @)]
    /\ batch' = [batch EXCEPT !.sub[id][i] = "done"]
    /\ UNCHANGED <<variant, remote, overflow, blobs>>
    /\ UNCHANGED batchFrame

\* A tier write of one report rejects: its prepareForFirestore rejects, and
\* with it Promise.all(blobPromises / prepPromises) and saveAllReports
BatchTierError(id, i) ==
    /\ batch.status \in {"prepare", "commit", "resolved", "rejected"}
    /\ i \in DOMAIN batch.sub[id] /\ batch.sub[id][i] \in {"pending", "put"}
    /\ batch' = [batch EXCEPT
                   !.sub[id][i] = "failed",
                   !.status = IF @ = "prepare" THEN "rejected" ELSE @]
    /\ UNCHANGED <<variant, mem, remote, overflow, blobs>>
    /\ UNCHANGED batchFrame

\* prepareForFirestore(report).then: batch.set(ref, cleaned)
BatchSet(id) ==
    /\ batch.status \in {"prepare", "rejected"}
    /\ ~batch.set[id]
    /\ \A i \in DOMAIN batch.sub[id] : batch.sub[id][i] \in {"na", "done"}
    /\ batch' = [batch EXCEPT
                   !.set[id] = TRUE,
                   !.cleaned[id] = IF variant = "blob" THEN mem[id] ELSE @]
    /\ UNCHANGED <<variant, mem, remote, overflow, blobs>>
    /\ UNCHANGED batchFrame

AllPrepared_Any == \E id \in BatchIds : batch.set[id]

\* Promise.all(blobPromises / prepPromises) has fulfilled
AllPrepared == \A id \in BatchIds : batch.set[id]

\* .then(function () { return batch.commit(); })
BatchCommit ==
    /\ batch.status = "prepare"
    /\ AllPrepared
    /\ batch' = [batch EXCEPT !.status = "commit", !.commits = @ + 1]
    /\ UNCHANGED <<variant, mem, remote, overflow, blobs>>
    /\ UNCHANGED batchFrame

\* batch.commit() fulfilled: every write added to the batch is applied
BatchCommitDone ==
    /\ batch.status = "commit"
    /\ \A id \in BatchIds : SumLen(batch.cleaned[id]) <= DOC_CEILING
    /\ remote' = [id \in BatchIds |->
                    IF batch.set[id] THEN Doc(batch.cleaned[id])
                    ELSE remote[id]]
    /\ batch' = [batch EXCEPT !.status = "resolved"]
    /\ UNCHANGED <<variant, mem, overflow, blobs>>
    /\ UNCHANGED batchFrame

\* batch.commit() rejected: no write of the batch is applied
BatchCommitError(e) ==
    /\ batch.status = "commit"
    /\ e = "too-large"
         <=> \E id \in BatchIds : SumLen(batch.cleaned[id]) > DOC_CEILING
    /\ batch' = [batch EXCEPT !.status = "rejected"]
    /\ UNCHANGED <<variant, mem, remote, overflow, blobs>>
    /\ UNCHANGED batchFrame

\* saveAllReports(reports), IndexedDB variant: await openDB() is pending
IdbSaveAllReports ==
    /\ variant = "indexeddb"
    /\ batch = NoBatch
    /\ batch' = [status |-> "open",
                 sub |-> [id \in BatchIds |-> <<>>],
                 set |-> [id \in BatchIds |-> FALSE],
                 cleaned |-> [id \in BatchIds |-> <<>>],
                 commits |-> 0]
    /\ UNCHANGED <<variant, mem, remote, overflow, blobs>>
    /\ UNCHANGED batchFrame

\* openDB fulfilled: one readwrite transaction, store.put(r) for every
\* report
IdbTransaction ==
    /\ batch.status = "open"
    /\ batch' = [batch EXCEPT
                   !.status = "tx",
                   !.set = [id \in BatchIds |-> TRUE],
                   !.cleaned = [id \in BatchIds |-> mem[id]]]
    /\ UNCHANGED <<variant, mem, remote, overflow, blobs>>
    /\ UNCHANGED batchFrame

\* openDB rejected: request.onerror
IdbOpenError ==
    /\ batch.status = "open"
    /\ batch' = [batch EXCEPT !.status = "rejected"]
    /\ UNCHANGED <<variant, mem, remote, overflow, blobs>>
    /\ UNCHANGED batchFrame

\* tx.oncomplete: the puts of the transaction are all in the store
IdbTxComplete ==
    /\ batch.status = "tx"
    /\ remote' = [id \in BatchIds |-> Doc(batch.cleaned[id])]
    /\ batch' = [batch EXCEPT !.status = "resolved", !.commits = @ + 1]
    /\ UNCHANGED <<variant, mem, overflow, blobs>>
    /\ UNCHANGED batchFrame

\* tx.onerror: the transaction is aborted, none of its puts is kept
IdbTxError ==
    /\ batch.status = "tx"
    /\ batch' = [batch EXCEPT !.status = "rejected"]
    /\ UNCHANGED <<variant, mem, remote, overflow, blobs>>
    /\ UNCHANGED batchFrame

BatchNext ==
    \/ SaveAllReports
    \/ \E id \in BatchIds, i \in 1..(MaxBatchAtts + 1) : BatchTierPut(id, i)
    \/ \E id \in BatchIds, i \in 1..(MaxBatchAtts + 1) : BatchDownloadURL(id, i)
    \/ \E id \in BatchIds, i \in 1..(MaxBatchAtts + 1) : BatchTierError(id, i)
    \/ \E id \in BatchIds : BatchSet(id)
    \/ BatchCommit
    \/ BatchCommitDone
    \/ \E e \in {"too-large", "unavailable"} : BatchCommitError(e)
    \/ IdbSaveAllReports
    \/ IdbTransaction
    \/ IdbOpenError
    \/ IdbTxComplete
    \/ IdbTxError

\* One saveAllReports call on a batch of reports
BatchSpec == BatchInit /\ [][BatchNext]_vars

----------------------------------------------------------------------------
(* The report handlers of dashboard.js: create, edit, remove attachment, *)
(* delete. Attachments are told apart by their names here.               *)

\* StorageDB calls the handlers issue in one run
MaxCalls == 3

\* new Date().getFullYear()
CurrentYear == 2024

\* "RPT-" + year + "-" + String(seq).padStart(4, "0")
ReportId(year, seq) == <<"RPT", year, seq>>

UiIds == {ReportId(CurrentYear, n) : n \in 1..(MaxCalls + 1)}

\* Variables the report handlers do not touch
uiFrame == <<variant, mem, overflow, blobs, op, prev, listView,
             clock, timer, loadPc, device, batch, feedVars, searchVars>>

\* The list an earlier session left in the store by creating two reports,
\* as the start-up load puts it into REPORTS
UiStored ==
    <<[id |-> ReportId(CurrentYear, 2), attachments |-> <<>>],
      [id |-> ReportId(CurrentYear, 1), attachments |-> <<"a", "b">>]>>

\* The page after its start-up load, which found no report or found the
\* reports of the earlier session
UiInit ==
    /\ variant = "overflow"
    /\ mem = [id \in ReportIds |-> <<>>]
    /\ REPORTS \in {<<>>, UiStored}
    /\ remote = [id \in UiIds |->
                    IF \E n \in 1..Len(REPORTS) : REPORTS[n].id = id
                    THEN Doc(REPORTS[CHOOSE n \in 1..Len(REPORTS) :
                                        REPORTS[n].id = id].attachments)
                    ELSE NoDoc]
    /\ overflow = {}
    /\ blobs = {}
    /\ op = Idle
    /\ prev = Summary(Idle)
    /\ listView = <<>>
    /\ clock = 0
    /\ timer = "none"
    /\ loadPc = "done"
    /\ diag = <<>>
    /\ ExtIdle

\* array.splice(idx, 1), idx counted from 1
Splice(s, idx) == SubSeq(s, 1, idx - 1) \o SubSeq(s, idx + 1, Len(s))

\* REPORTS.find / REPORTS.findIndex((r) => r.id === id): the first match,
\* 0 when there is none
FindIndex(id) ==
    IF \E n \in 1..Len(REPORTS) : REPORTS[n].id = id
    THEN CHOOSE n \in 1..Len(REPORTS) :
            /\ REPORTS[n].id = id
            /\ \A m \in 1..(n - 1) : REPORTS[m].id # id
    ELSE 0

\* A StorageDB call as the handler issues it; doc is the attachment list
\* the report has at that moment
Call(handler, kind, id, doc) ==
    [handler |-> handler, kind |-> kind, id |-> id, doc |-> doc,
     status |-> "pending"]

\* REPORTS.length + 1
NextSeq == Len(REPORTS) + 1

\* submit handler, create branch, up to await StorageDB.saveReport(report)
SubmitCreate(atts) ==
    /\ Len(calls) < MaxCalls
    /\ LET id == ReportId(CurrentYear, NextSeq)
       IN /\ REPORTS' = <<[id |-> id, attachments |-> atts]>> \o REPORTS
          /\ calls' = Append(calls, Call("create", "save", id, atts))
    /\ UNCHANGED <<remote, diag>>
    /\ UNCHANGED uiFrame

PushAll_Replace(attachments, newAttachments) == newAttachments

\* existing.attachments.push(...newAttachments)
PushAll(attachments, newAttachments) == attachments \o newAttachments

\* submit handler, edit branch, up to await StorageDB.saveReport(existing);
\* editingReportId is the id of the report the form was opened for
SubmitEdit(editingReportId, newAttachments) ==
    /\ Len(calls) < MaxCalls
    /\ FindIndex(editingReportId) # 0
    /\ LET n == FindIndex(editingReportId)
           atts == PushAll(REPORTS[n].attachments, newAttachments)
       IN /\ REPORTS' = [REPORTS EXCEPT ![n].attachments = atts]
          /\ calls' = Append(calls, Call("edit", "save", editingReportId, atts))
    /\ UNCHANGED <<remote, diag>>
    /\ UNCHANGED uiFrame

\* removeBtn click on attachment idx of the report object shown, which is
\* entry n of REPORTS: splice, then StorageDB.saveReport(report), not awaited
RemoveClick(n, idx) ==
    /\ Len(calls) < MaxCalls
    /\ n \in 1..Len(REPORTS)
    /\ idx \in 1..Len(REPORTS[n].attachments)
    /\ LET atts == Splice(REPORTS[n].attachments, idx)
       IN /\ REPORTS' = [REPORTS EXCEPT ![n].attachments = atts]
          /\ calls' = Append(calls, Call("remove", "save", REPORTS[n].id, atts))
    /\ UNCHANGED <<remote, diag>>
    /\ UNCHANGED uiFrame

\* confirmBtn click for the report with this id: REPORTS.splice, then
\* await StorageDB.deleteReport(report.id)
ConfirmDelete(id) ==
    /\ Len(calls) < MaxCalls
    /\ FindIndex(id) # 0
    /\ REPORTS' = Splice(REPORTS, FindIndex(id))
    /\ calls' = Append(calls, Call("delete", "delete", id, <<>>))
    /\ UNCHANGED <<remote, diag>>
    /\ UNCHANGED uiFrame

\* What the handler does once its call has fulfilled
OnFulfilled(c) ==
    IF calls[c].handler \in {"create", "edit"}
    THEN Append(diag, [level |-> "log", call |-> c])
    ELSE diag

\* What the handler does once its call has rejected: the submit handler
\* catches, logs and alerts; the remove handler has no rejection handler;
\* the delete handler has an empty catch
OnRejected(c) ==
    IF calls[c].handler \in {"create", "edit"}
    THEN Append(diag, [level |-> "error", call |-> c])
    ELSE diag

\* The StorageDB call c fulfils: its write or delete of the document is
\* applied. Calls fulfil in the order their requests finish.
CallFulfilled(c) ==
    /\ c \in DOMAIN calls /\ calls[c].status = "pending"
    /\ remote' = [remote EXCEPT ![calls[c].id] =
                    IF calls[c].kind = "save" THEN Doc(calls[c].doc) ELSE NoDoc]
    /\ calls' = [calls EXCEPT ![c].status = "resolved"]
    /\ diag' = OnFulfilled(c)
    /\ UNCHANGED REPORTS
    /\ UNCHANGED uiFrame

\* The StorageDB call c rejects: the document is as it was
CallRejected(c) ==
    /\ c \in DOMAIN calls /\ calls[c].status = "pending"
    /\ calls' = [calls EXCEPT ![c].status = "rejected"]
    /\ diag' = OnRejected(c)
    /\ UNCHANGED <<REPORTS, remote>>
    /\ UNCHANGED uiFrame

\* Attachment lists of a submitted form
FormAttachments == {<<>>, <<"a", "b">>}

UiNext ==
    \/ \E atts \in FormAttachments : SubmitCreate(atts)
    \/ \E id \in UiIds, atts \in {<<>>, <<"c">>} : SubmitEdit(id, atts)
    \/ \E n \in 1..MaxCalls, idx \in 1..3 : RemoveClick(n, idx)
    \/ \E id \in UiIds : ConfirmDelete(id)
    \/ \E c \in 1..MaxCalls : CallFulfilled(c)
    \/ \E c \in 1..MaxCalls : CallRejected(c)

\* The dashboard after its start-up load, driven by the user
UiSpec == UiInit /\ [][UiNext]_vars

----------------------------------------------------------------------------
(* The activity feed of admin.js: subscribeToActivity *)

\* .limit(50)
PAGE_SIZE == 50

\* Milliseconds per day: new Date("YYYY-MM-DD") is that day's midnight, UTC
MS_PER_DAY == 86400000

\* subscribeToActivity calls in one run
MaxSubs == 2

\* Events logged while the page is open
MaxAppends == 1

\* new Date(dateFilter).getTime(), dateFilter given as a day number; the
\* empty value of the date control is written 0
DateToTime(dateFilter) == dateFilter * MS_PER_DAY

\* The k-th event of the log the page finds: written by alice or bob, a
\* login or a search, one millisecond apart, the first one a millisecond
\* before midnight of day 1
FixtureEvent(k) ==
    [id |-> k,
     username |-> IF k % 3 = 0 THEN "bob" ELSE "alice",
     action |-> IF k % 2 = 0 THEN "login" ELSE "search",
     timestamp |-> DateToTime(1) - 2 + k,
     pending |-> FALSE]

Fixture(n) == [k \in 1..n |-> FixtureEvent(k)]

\* Values of the three filter controls (user, action, date) at a call:
\* "" and day 0 are "all". One tuple per branch of the query, and the date
\* alone.
FilterTuples ==
    {<<"", "", 0>>, <<"", "", 1>>, <<"alice", "", 1>>, <<"", "login", 0>>,
     <<"alice", "login", 1>>}

\* Variables the activity feed does not touch
feedFrame == <<storageVars, REPORTS, clock, timer, loadPc,
               device, batch, calls, searchVars>>

NoFeed == [kind |-> "items", items |-> <<>>, by |-> 0]

\* admin.js has run up to its first subscribeToActivity()
FeedInit ==
    /\ variant = "blob"
    /\ mem = [id \in ReportIds |-> <<>>]
    /\ remote = [id \in ReportIds |-> NoDoc]
    /\ overflow = {}
    /\ blobs = {}
    /\ op = Idle
    /\ prev = Summary(Idle)
    /\ listView = <<>>
    /\ LoadIdle
    /\ device = "A" /\ batch = NoBatch /\ calls = <<>>
    /\ SearchIdle
    /\ events \in {Fixture(0), Fixture(3), Fixture(PAGE_SIZE)}
    /\ currentUnsubscribe = 0
    /\ listeners = <<>>
    /\ activityFeed = NoFeed

Unsubscribe_Skip(ls, cur) == ls

\* if (currentUnsubscribe) currentUnsubscribe(): the store stops delivering
\* to that listener; calling it again changes nothing
Unsubscribe(ls, cur) ==
    IF cur # 0
    THEN [ls EXCEPT ![cur].live = FALSE, ![cur].unsubscribed = @ + 1]
    ELSE ls

\* subscribeToActivity(), with the values the three filter controls have:
\* the previous listener is unsubscribed, then the query is built and
\* query.onSnapshot opens the new listener. liveAtOpen is the number of
\* listeners the store was delivering to when the new one was opened.
SubscribeToActivity(userFilter, actionFilter, dateFilter) ==
    /\ Len(listeners) < MaxSubs
    /\ LET before == Unsubscribe(listeners, currentUnsubscribe)
           new == [userFilter |-> userFilter, actionFilter |-> actionFilter,
                   dateFilter |-> dateFilter, live |-> TRUE, failed |-> FALSE,
                   unsubscribed |-> 0, seen |-> -1,
                   liveAtOpen |->
                      Cardinality({k \in DOMAIN before : before[k].live})]
       IN /\ listeners' = Append(before, new)
          /\ currentUnsubscribe' = Len(before) + 1
    /\ UNCHANGED <<events, activityFeed, diag>>
    /\ UNCHANGED feedFrame

\* .where("username", "==", userFilter) / .where("action", "==",
\* actionFilter), each present when its filter value is not ""
WhereMatches(e, l) ==
    /\ l.userFilter # "" => e.username = l.userFilter
    /\ l.actionFilter # "" => e.action = l.actionFilter

\* Event e comes before event f under orderBy("timestamp", "desc"); equal
\* timestamps are ordered by document id
Before(e, f) ==
    \/ e.timestamp > f.timestamp
    \/ e.timestamp = f.timestamp /\ e.id > f.id

RECURSIVE InsertDesc(_, _)
InsertDesc(e, s) ==
    IF s = <<>> THEN <<e>>
    ELSE IF Before(e, s[1]) THEN <<e>> \o s
    ELSE <<s[1]>> \o InsertDesc(e, Tail(s))

RECURSIVE OrderByDesc(_)
\* .orderBy("timestamp", "desc") over the documents docs
OrderByDesc(docs) ==
    IF docs = <<>> THEN <<>>
    ELSE InsertDesc(docs[Len(docs)],
                    OrderByDesc(SubSeq(docs, 1, Len(docs) - 1)))

\* .limit(n)
Limit(s, n) == SubSeq(s, 1, IF Len(s) < n THEN Len(s) ELSE n)

\* The documents of the snapshot the store delivers to listener l
QuerySnapshot(l) ==
    Limit(OrderByDesc(SelectSeq(events, LAMBDA e : WhereMatches(e, l))),
          PAGE_SIZE)

DateFilterDrops_OnOrBefore(e, dateFilter) ==
    /\ dateFilter # 0
    /\ ~e.pending
    /\ e.timestamp <= DateToTime(dateFilter)

\* dateFilter && data.timestamp && data.timestamp.toDate, and
\* eventDate < filterDateObj: the forEach callback returns without
\* rendering the event
DateFilterDrops(e, dateFilter) ==
    /\ dateFilter # 0
    /\ ~e.pending
    /\ e.timestamp < DateToTime(dateFilter)

RECURSIVE SelectShown(_, _)
\* snap.forEach: the ids of the events appended to the feed, in snapshot
\* order
SelectShown(docs, dateFilter) ==
    IF docs = <<>> THEN <<>>
    ELSE (IF DateFilterDrops(docs[1], dateFilter) THEN <<>> ELSE <<docs[1].id>>)
         \o SelectShown(Tail(docs), dateFilter)

RemoveChildren_Keep(items) == items

\* while (activityFeed.firstChild) activityFeed.removeChild(...): the event
\* items left in the feed
RemoveChildren(items) == <<>>

\* setFeedMessage(text): the feed is emptied and shows the message
SetFeedMessage(kind, k) ==
    [kind |-> kind, items |-> RemoveChildren(activityFeed.items), by |-> k]

\* The onSnapshot callback of listener k runs on the current log: the feed
\* is emptied, then it shows "No activity found." or the events that pass
\* the date filter
OnSnapshot(k) ==
    /\ k \in DOMAIN listeners
    /\ listeners[k].live
    /\ listeners[k].seen # Len(events)
    /\ LET docs == QuerySnapshot(listeners[k])
       IN activityFeed' =
             IF docs = <<>>
             THEN SetFeedMessage("none-found", k)
             ELSE [kind |-> "items",
                   items |-> RemoveChildren(activityFeed.items)
                                \o SelectShown(docs, listeners[k].dateFilter),
                   by |-> k]
    /\ listeners' = [listeners EXCEPT ![k].seen = Len(events)]
    /\ UNCHANGED <<events, currentUnsubscribe, diag>>
    /\ UNCHANGED feedFrame

\* The error callback of listener k runs: the store has ended the listener
OnSnapshotError(k) ==
    /\ k \in DOMAIN listeners
    /\ listeners[k].live
    /\ listeners' = [listeners EXCEPT ![k].live = FALSE, ![k].failed = TRUE]
    /\ activityFeed' = SetFeedMessage("error", k)
    /\ diag' = Append(diag, [level |-> "error", e |-> "Activity feed error"])
    /\ UNCHANGED <<events, currentUnsubscribe>>
    /\ UNCHANGED feedFrame

\* Events the log received after the page was opened
Appended == {k \in DOMAIN events : events[k] # FixtureEvent(k)}

\* The client that logs next, and what it logs
Loggers == {<<"alice", "login">>, <<"bob", "report_view">>}

LogAppend_Overwrite(username, action) ==
    /\ Cardinality(Appended) < MaxAppends
    /\ events # <<>>
    /\ events' = [events EXCEPT ![Len(events)] =
          [id |-> Len(events), username |-> username, action |-> action,
           timestamp |-> DateToTime(1) + PAGE_SIZE + Len(events),
           pending |-> FALSE]]
    /\ UNCHANGED <<currentUnsubscribe, listeners, activityFeed, diag>>
    /\ UNCHANGED feedFrame

\* ActivityLog.log on some client: collection("activity").add; the event
\* reaches the listeners with the timestamp the server assigned
LogAppend(username, action) ==
    /\ Cardinality(Appended) < MaxAppends
    /\ events' = Append(events,
          [id |-> Len(events) + 1, username |-> username, action |-> action,
           timestamp |-> DateToTime(1) + PAGE_SIZE + Len(events),
           pending |-> FALSE])
    /\ UNCHANGED <<currentUnsubscribe, listeners, activityFeed, diag>>
    /\ UNCHANGED feedFrame

FeedNext ==
    \/ \E f \in FilterTuples : SubscribeToActivity(f[1], f[2], f[3])
    \/ \E k \in 1..MaxSubs : OnSnapshot(k)
    \/ \E k \in 1..MaxSubs : OnSnapshotError(k)
    \/ \E w \in Loggers : LogAppend(w[1], w[2])

\* The admin page with its activity feed
FeedSpec == FeedInit /\ [][FeedNext]_vars

----------------------------------------------------------------------------
(* A caller that saves what it loaded: the report list of getAllReports   *)
(* (the start-up load fills REPORTS with it and the edit form saves its   *)
(* entries) and the report of getReport                                   *)

\* The reports the first session saves: one attachment of each kind, and a
\* small inline attachment followed by one over the inline budget
ReloadInputs(id) ==
    {<<att>> : att \in AttInputs(id)}
       \cup {<<Att("a", 0, 0, ReadAsDataURL(1, 0), NoStorageUrl, NoPath),
               Att("b", 599980, 0, ReadAsDataURL(3, 599980), NoStorageUrl,
                   NoPath)>>}

ReloadInit ==
    /\ variant \in {"overflow", "blob"}
    /\ mem \in {m \in [ReportIds -> UNION {ReloadInputs(id) : id \in ReportIds}] :
                  \A id \in ReportIds : m[id] \in ReloadInputs(id)}
    /\ remote = [id \in ReportIds |-> NoDoc]
    /\ overflow = {}
    /\ blobs = {}
    /\ op = Idle
    /\ prev = Summary(Idle)
    /\ listView = <<>>
    /\ LoadIdle
    /\ ExtIdle

\* Position of report id in the list getAllReports returned, 0 if absent
ListIndex(id) ==
    IF \E n \in 1..Len(listView) : listView[n].id = id
    THEN CHOOSE n \in 1..Len(listView) : listView[n].id = id
    ELSE 0

\* REPORTS.push(...saved): the report objects of the list become the ones
\* the page shows, edits and saves
AdoptList(id) ==
    /\ CanStart
    /\ op.kind = "loadAll" /\ op.promise = "resolved"
    /\ ListIndex(id) # 0
    /\ mem' = [mem EXCEPT ![id] = listView[ListIndex(id)].attachments]
    /\ UNCHANGED <<variant, remote, overflow, blobs, op, prev, listView>>
    /\ UNCHANGED <<loadVars, extVars>>

\* The report getReport(id) resolved with becomes the caller's report
AdoptReport(id) ==
    /\ CanStart
    /\ op.kind = "get" /\ op.id = id /\ op.promise = "resolved"
    /\ op.data.exists
    /\ mem' = [mem EXCEPT ![id] = op.data.attachments]
    /\ UNCHANGED <<variant, remote, overflow, blobs, op, prev, listView>>
    /\ UNCHANGED <<loadVars, extVars>>

ReloadNext ==
    \/ \E id \in ReportIds : SaveReportOverflow(id)
    \/ \E i \in 1..(MaxAtts + 1) : SaveBlobLocalDone(i)
    \/ \E i \in 1..(MaxAtts + 1) : SaveBlobLocalError(i)
    \/ \E id \in ReportIds : SaveReportBlob(id)
    \/ \E i \in 1..(MaxAtts + 1) : UploadPutDone(i)
    \/ \E i \in 1..(MaxAtts + 1) : UploadPutError(i)
    \/ \E i \in 1..(MaxAtts + 1) : GetDownloadURLDone(i)
    \/ \E i \in 1..(MaxAtts + 1) : GetDownloadURLError(i)
    \/ FirestoreSet
    \/ SetDone
    \/ \E e \in {"too-large", "unavailable"} : SetError(e)
    \/ ListCall
    \/ ListDone
    \/ ListError
    \/ \E id \in ReportIds : AdoptList(id)
    \/ \E id \in ReportIds : GetReport(id)
    \/ GetReportDone
    \/ GetReportError
    \/ \E i \in 1..(MaxAtts + 1) : GetBlobLocalDone(i)
    \/ \E i \in 1..(MaxAtts + 1) : GetBlobLocalError(i)
    \/ \E i \in 1..(MaxAtts + 1) : OpenLocalDBError(i)
    \/ \E id \in ReportIds : AdoptReport(id)
    \/ OtherDevice

\* saveReport, getAllReports and getReport on one report, the caller saving
\* what it loaded, on the device that saved first and on another
ReloadSpec == ReloadInit /\ [][ReloadNext]_vars

----------------------------------------------------------------------------
(* ActivityLog.logSearch: the search box of dashboard.js calls it on every *)
(* input event. Texts are sequences of characters.                         *)

\* const SEARCH_DEBOUNCE_MS
SEARCH_DEBOUNCE_MS == 2000

\* logSearch calls in one run
MaxSearches == 2

Whitespace == {" "}

RECURSIVE TrimStart(_)
TrimStart(s) ==
    IF s # <<>> /\ s[1] \in Whitespace THEN TrimStart(Tail(s)) ELSE s

RECURSIVE TrimEnd(_)
TrimEnd(s) ==
    IF s # <<>> /\ s[Len(s)] \in Whitespace
    THEN TrimEnd(SubSeq(s, 1, Len(s) - 1)) ELSE s

\* String.prototype.trim
Trim(s) == TrimEnd(TrimStart(s))

\* searchInput.value at an input event
Queries == {<<>>, <<" ">>, <<"a">>, <<" ", "a", " ", "b", " ">>}

\* Variables logSearch does not touch
searchFrame == <<storageVars, REPORTS, timer, loadPc, diag, device, batch,
                 calls, currentUnsubscribe, listeners, activityFeed>>

\* The dashboard is loaded and nothing was typed in the search box
SearchInit ==
    /\ variant = "blob"
    /\ mem = [id \in ReportIds |-> <<>>]
    /\ remote = [id \in ReportIds |-> NoDoc]
    /\ overflow = {}
    /\ blobs = {}
    /\ op = Idle
    /\ prev = Summary(Idle)
    /\ listView = <<>>
    /\ REPORTS = <<>>
    /\ clock = 0
    /\ timer = "none"
    /\ loadPc = "done"
    /\ diag = <<>>
    /\ ExtIdle

ClearTimeout_Noop(ts, id) == ts

\* clearTimeout(id): the timer with that id, if still pending, is dropped
ClearTimeout(ts, id) == {t \in ts : t.id # id}

\* logSearch(query): if (_searchTimer) clearTimeout(_searchTimer);
\* _searchTimer = setTimeout(callback, SEARCH_DEBOUNCE_MS). setTimeout
\* returns a new positive id; the callback keeps query.
LogSearch(query) ==
    /\ Len(searches) < MaxSearches
    /\ LET cleared == IF searchTimer # 0
                      THEN ClearTimeout(timeouts, searchTimer) ELSE timeouts
           id == Len(searches) + 1
       IN /\ timeouts' = cleared \cup
                {[id |-> id, due |-> clock + SEARCH_DEBOUNCE_MS,
                  query |-> query]}
          /\ searchTimer' = id
    /\ searches' = Append(searches, [at |-> clock, query |-> query])
    /\ UNCHANGED <<clock, events>>
    /\ UNCHANGED searchFrame

\* The timer callback: if (query && query.trim().length > 0)
\* log("search", { query: query.trim() }). _searchTimer keeps the id.
SearchTimerFire(id) ==
    /\ \E t \in timeouts :
          /\ t.id = id /\ t.due <= clock
          /\ timeouts' = timeouts \ {t}
          /\ events' =
                IF t.query # <<>> /\ Len(Trim(t.query)) > 0
                THEN Append(events,
                        [id |-> Len(events) + 1, username |-> "alice",
                         action |-> "search", details |-> Trim(t.query),
                         timestamp |-> clock, pending |-> FALSE])
                ELSE events
    /\ UNCHANGED <<clock, searchTimer, searches>>
    /\ UNCHANGED searchFrame

\* The earliest time a pending timer is due, or limit if none is pending
NextDue(limit) ==
    IF timeouts = {} THEN limit
    ELSE (CHOOSE t \in timeouts : \A u \in timeouts : t.due <= u.due).due

\* Time passes by up to d milliseconds; a due timer fires before time
\* moves on
SearchTick(d) ==
    /\ LET limit == (MaxSearches + 1) * SEARCH_DEBOUNCE_MS
           t == IF clock + d < NextDue(limit) THEN clock + d
                ELSE NextDue(limit)
       IN /\ t > clock /\ t <= limit
          /\ clock' = t
    /\ UNCHANGED <<events, searchTimer, timeouts, searches>>
    /\ UNCHANGED searchFrame

SearchNext ==
    \/ \E query \in Queries : LogSearch(query)
    \/ \E id \in 1..MaxSearches : SearchTimerFire(id)
    \/ \E d \in {SEARCH_DEBOUNCE_MS - 1, SEARCH_DEBOUNCE_MS} : SearchTick(d)

\* The search box of the dashboard
SearchSpec == SearchInit /\ [][SearchNext]_vars

----------------------------------------------------------------------------
(* Properties *)

\* The set(cleaned) of the saveReport call in flight, or the commit of the
\* batch of the saveAllReports call in flight, has been issued
SetIssued == op.kind \in SaveKinds /\ op.sets > 0

\* C1: local-overflow variant. In the document saveReport hands to set, an
\* attachment whose dataUrl is at most MAX_INLINE_SIZE characters long (one
\* of a 0-byte file included) is inline, unchanged; one whose dataUrl is
\* longer carries the reference "local:" + key, and the overflow store holds
\* the dataUrl under that key.
C1_PlacementByBudget ==
    (variant = "overflow" /\ SetIssued) =>
        \A i \in 1..Len(op.arg) :
            LET d == op.arg[i].dataUrl
                key == BlobKey(op.id, i)
            IN /\ Len(op.cleaned) = Len(op.arg)
               /\ (d.kind = "data" /\ d.len <= MAX_INLINE_SIZE)
                     => op.cleaned[i].dataUrl = d
               /\ (d.kind = "data" /\ op.arg[i].size = 0)
                     => op.cleaned[i].dataUrl = d
               /\ (d.kind = "data" /\ d.len > MAX_INLINE_SIZE)
                     => /\ op.cleaned[i].dataUrl = LocalRef(key)
                        /\ Has(overflow, key)
                        /\ Get(overflow, key) = d

\* C1 witness: a document was handed to set with one attachment exactly at
\* the budget kept inline and one above it moved to the overflow store.
C1_Witness ==
    /\ variant = "overflow" /\ SetIssued
    /\ \E i, j \in 1..Len(op.arg) :
          /\ op.arg[i].dataUrl.len = MAX_INLINE_SIZE
          /\ op.cleaned[i].dataUrl.kind = "data"
          /\ op.arg[j].dataUrl.len > MAX_INLINE_SIZE
          /\ op.cleaned[j].dataUrl.kind = "local"

RECURSIVE InlineTotal(_)
InlineTotal(atts) ==
    IF atts = <<>> THEN 0
    ELSE (IF atts[1].dataUrl.kind = "data" THEN atts[1].dataUrl.len ELSE 0)
         + InlineTotal(Tail(atts))

\* C2: the inline attachment payloads of a document handed to set total at
\* most the document size ceiling of the remote store.
C2_InlineWithinCeiling ==
    SetIssued => InlineTotal(op.cleaned) <= DOC_CEILING

\* The tier write of attachment i of the saveReport in flight has completed
\* and its payload is in the tier's store
TierWritten(i) ==
    \/ op.sub[i] = "na"
    \/ /\ op.sub[i] = "done"
       /\ IF variant = "overflow"
          THEN /\ Has(overflow, BlobKey(op.id, i))
               /\ Get(overflow, BlobKey(op.id, i)) = op.arg[i].dataUrl
          ELSE /\ Has(blobs, StoragePath(op.id, op.arg[i].name))
               /\ op.cleaned[i].storagePath = StoragePath(op.id, op.arg[i].name)

\* C3: set(report.id, cleaned) is issued only once every tier write of the
\* save has completed; and no stored document carries an overflow reference
\* whose entry is not in the overflow store.
C3_SetAfterTierWrites ==
    /\ SetIssued => \A i \in DOMAIN op.sub : TierWritten(i)
    /\ variant = "overflow" =>
          \A id \in ReportIds : \A i \in 1..Len(remote[id].attachments) :
             remote[id].attachments[i].dataUrl.kind = "local"
                => Has(overflow, remote[id].attachments[i].dataUrl.key)

\* C3 witness: a save with a tier write finished and its document is stored.
C3_Witness ==
    /\ op.kind = "save" /\ op.promise = "resolved"
    /\ remote[op.id] = Doc(op.cleaned)
    /\ \E i \in DOMAIN op.sub : op.sub[i] = "done"

\* C1 as first stated, with the payload size read as the attachment's size
\* in bytes: an attachment of at most MAX_INLINE_SIZE bytes stays inline.
C1_InlineByByteSize ==
    (variant = "overflow" /\ SetIssued) =>
        \A i \in 1..Len(op.arg) :
            (op.arg[i].dataUrl.kind = "data" /\ op.arg[i].size <= MAX_INLINE_SIZE)
                => op.cleaned[i].dataUrl = op.arg[i].dataUrl

\* Number of payload locators populated on an attachment
Locators(att) ==
    (IF att.dataUrl.kind = "data" THEN 1 ELSE 0)
    + (IF att.dataUrl.kind = "local" THEN 1 ELSE 0)
    + (IF att.storageUrl # NoStorageUrl \/ att.storagePath # NoPath THEN 1 ELSE 0)

OneLocatorNoFile(att) == Locators(att) <= 1 /\ att.file = 0

NeedsUpload(att) ==
    \/ att.file # 0
    \/ att.dataUrl.kind = "data" /\ att.dataUrl.len > 0
                                 /\ att.storageUrl = NoStorageUrl

\* Two saveReport calls in a row on one report object, both fulfilled
SavedTwice ==
    /\ variant = "blob"
    /\ prev.kind = "save" /\ prev.promise = "resolved"
    /\ op.kind = "save" /\ op.promise = "resolved" /\ op.id = prev.id

C6_SetFailurePropagates ==
    (SetIssued /\ op.phase = "done" /\ remote[op.id] # Doc(op.cleaned)) =>
        /\ op.promise = "rejected"
        /\ op.err \in {"too-large", "unavailable"}
        /\ op.sets = 1
        /\ \A i \in DOMAIN op.sub : TierWritten(i)

\* C6 witness: a save whose tier write completed and whose set was rejected.
C6_Witness ==
    /\ SetIssued /\ op.phase = "done" /\ op.promise = "rejected"
    /\ remote[op.id] # Doc(op.cleaned)
    /\ \E i \in DOMAIN op.sub : op.sub[i] = "done"

\* A successful deleteReport right after a successful saveReport of the
\* same report
DeletedAfterSave ==
    /\ prev.kind = "save" /\ prev.promise = "resolved"
    /\ op.kind = "delete" /\ op.promise = "resolved" /\ op.id = prev.id

\* C7: once deleteReport(id) has reported success, the document of id is
\* gone and so is every overflow entry and every blob it referenced.
C7_DeleteRemovesPayloads ==
    DeletedAfterSave =>
        /\ ~remote[op.id].exists
        /\ \A i \in 1..Len(prev.cleaned) :
              /\ prev.cleaned[i].dataUrl.kind = "local"
                    => ~Has(overflow, prev.cleaned[i].dataUrl.key)
              /\ prev.cleaned[i].storagePath # NoPath
                    => ~Has(blobs, prev.cleaned[i].storagePath)

\* deleteReport has settled and none of its requests is in flight
DeleteSettled == op.kind = "delete" /\ CanStart

\* C8: deleteReport never raises storage/object-not-found; a delete of an
\* id that was just deleted, or whose document does not exist, fulfils
\* unless the remote store cannot be reached; a blob delete that fails in
\* another way rejects the call, so a fulfilled delete leaves none of the
\* blobs the document named.
C8_DeleteIdempotent ==
    op.kind = "delete" =>
        /\ op.err # "storage/object-not-found"
        /\ ( /\ DeleteSettled
             /\ \/ ~op.data.exists
                \/ prev.kind = "delete" /\ prev.promise = "resolved"
                                        /\ prev.id = op.id )
              => (op.promise = "resolved" \/ op.err = "unavailable")
        /\ \A i \in DOMAIN op.sub :
              /\ op.sub[i] = "failed"
                    => /\ op.promise = "rejected"
                       /\ op.err \in {"storage/unauthorized", "unavailable"}
              /\ (op.promise = "resolved" /\ op.sub[i] # "na")
                    => ~Has(blobs, op.data.attachments[i].storagePath)

\* C8 witness: a delete fulfils although the blobs its document names were
\* already removed by an earlier delete that failed on the document.
C8_Witness ==
    /\ op.kind = "delete" /\ op.promise = "resolved"
    /\ prev.kind = "delete" /\ prev.promise = "rejected" /\ prev.id = op.id
    /\ op.data.exists
    /\ \E i \in DOMAIN op.sub : op.sub[i] = "done"

\* C9 as first stated: no attachment of a report returned by getAllReports
\* carries a payload locator.
C9_ListHasNoLocator ==
    \A n \in 1..Len(listView) : \A i \in 1..Len(listView[n].attachments) :
        LET att == listView[n].attachments[i]
        IN /\ att.dataUrl = NoUrl
           /\ att.storageUrl = NoStorageUrl
           /\ att.storagePath = NoPath

\* C9 amended: no attachment of a report returned by getAllReports carries
\* a dataUrl (inline payload or overflow reference) or a file; in the
\* local-overflow variant it carries no storageUrl/storagePath either, in
\* the remote-blob variant those two are kept.
C9_ListStripsPayload ==
    \A n \in 1..Len(listView) : \A i \in 1..Len(listView[n].attachments) :
        LET att == listView[n].attachments[i]
        IN /\ att.dataUrl = NoUrl
           /\ att.file = 0
           /\ variant = "overflow"
                 => att.storageUrl = NoStorageUrl /\ att.storagePath = NoPath

\* C9 witness: getAllReports returned a report whose stored attachment has
\* a dataUrl, in the local-overflow variant.
C9_Witness ==
    /\ variant = "overflow"
    /\ op.kind = "loadAll" /\ op.promise = "resolved"
    /\ Len(listView) > 0
    /\ \E i \in 1..Len(listView[1].attachments) :
          /\ remote[listView[1].id].exists
          /\ Len(remote[listView[1].id].attachments) >= i
          /\ remote[listView[1].id].attachments[i].dataUrl # NoUrl

\* C10: when the race of the start-up load is settled by the rejection of
\* getAllReports or by the timer, the load block ends there, leaves REPORTS
\* as it was and logs one error; the block never throws, is never still
\* waiting after DB_TIMEOUT_MS, and always ends.
C10_LoadFailsSoft ==
    /\ [][ ( /\ loadPc = "await"
             /\ op'.promise = "rejected" \/ timer' = "fired" )
           => /\ loadPc' = "done"
              /\ REPORTS' = REPORTS
              /\ Len(diag') = Len(diag) + 1
              /\ diag'[Len(diag')].level = "error" ]_vars
    /\ [](loadPc # "threw")
    /\ [](loadPc = "await" => clock <= DB_TIMEOUT_MS)
    /\ (loadPc = "await") ~> (loadPc = "done")

\* C10 witness: the timer fired while getAllReports was pending on a store
\* that holds a report; the load is over and REPORTS is as before.
C10_Witness ==
    /\ loadPc = "done" /\ timer = "fired" /\ op.promise = "pending"
    /\ \E id \in ReportIds : remote[id].exists
    /\ REPORTS = <<>>
    /\ diag = <<[level |-> "error", e |-> "DB timeout"]>>

\* getReport has read an existing document and every getBlobLocal it
\* issued has answered (the local store could be opened)
RestoreAnswered ==
    /\ variant = "overflow" /\ op.kind = "get" /\ op.phase # "get"
    /\ op.data.exists
    /\ \A i \in DOMAIN op.sub : op.sub[i] \in {"na", "done", "readerr"}

\* C11: local-overflow variant. When getReport has read the document and
\* the local store has answered every lookup, the report is returned with
\* all its attachments; an attachment whose "local:" reference has no entry
\* in this device's overflow store comes back with dataUrl null, one whose
\* entry is there and was read comes back with the stored dataUrl, and an
\* inline attachment comes back as stored. getReport rejects only when the
\* document read fails or the local store cannot be opened.
C11_MissingBlobIsAbsent ==
    /\ RestoreAnswered =>
          /\ op.promise = "resolved"
          /\ Len(op.data.attachments) = Len(remote[op.id].attachments)
          /\ \A i \in 1..Len(op.data.attachments) :
                LET s == remote[op.id].attachments[i]
                    r == op.data.attachments[i]
                IN /\ [r EXCEPT !.dataUrl = s.dataUrl] = s
                   /\ IF ~IsLocalRef(s.dataUrl) THEN r.dataUrl = s.dataUrl
                      ELSE IF ~Has(overflow, s.dataUrl.key) \/ op.sub[i] = "readerr"
                           THEN r.dataUrl = NoUrl
                           ELSE r.dataUrl = Get(overflow, s.dataUrl.key)
    /\ (op.kind = "get" /\ op.promise = "rejected")
          => op.err \in {"unavailable", "local-store"}

\* C11 witness: on the second device getReport returned a report with one
\* attachment whose overflow entry is missing, now null, and one inline
\* attachment with its payload.
C11_Witness ==
    /\ RestoreAnswered /\ device = "B" /\ op.promise = "resolved"
    /\ \E i, j \in 1..Len(op.data.attachments) :
          /\ IsLocalRef(remote[op.id].attachments[i].dataUrl)
          /\ op.sub[i] = "done"
          /\ op.data.attachments[i].dataUrl = NoUrl
          /\ op.data.attachments[j].dataUrl.kind = "data"

\* The payload the caller handed over with an attachment: in the
\* remote-blob variant the file, else the bytes of the dataUrl; in the
\* local-overflow variant the bytes of the dataUrl; 0 when there is none
OriginalPayload(att) ==
    IF variant = "blob" /\ att.file # 0 THEN att.file
    ELSE IF Truthy(att.dataUrl) THEN att.dataUrl.bytes
    ELSE 0

\* The payload an attachment returned by getReport resolves to: what the
\* blob store holds under its storagePath, or the bytes of its dataUrl
ResolvedPayload(att) ==
    IF variant = "blob"
    THEN IF Has(blobs, att.storagePath) THEN Get(blobs, att.storagePath) ELSE 0
    ELSE IF att.dataUrl.kind = "data" THEN att.dataUrl.bytes ELSE 0

\* A fulfilled getReport right after a fulfilled saveReport of the same
\* report on the same device, with no read of the local store failing
RoundTrip ==
    /\ prev.kind = "save" /\ prev.promise = "resolved"
    /\ op.kind = "get" /\ op.promise = "resolved" /\ op.id = prev.id
    /\ \A i \in DOMAIN op.sub : op.sub[i] # "readerr"

\* C12: saveReport(report) then getReport(report.id) on one device, with or
\* without a restart in between, returns a report with the same attachments
\* (name, type, size) whose payloads resolve to the bytes handed to save.
C12_RoundTrip ==
    RoundTrip =>
        /\ op.data.exists
        /\ Len(op.data.attachments) = Len(prev.arg)
        /\ \A i \in 1..Len(prev.arg) :
              /\ op.data.attachments[i].name = prev.arg[i].name
              /\ op.data.attachments[i].type = prev.arg[i].type
              /\ op.data.attachments[i].size = prev.arg[i].size
              /\ ResolvedPayload(op.data.attachments[i])
                    = OriginalPayload(prev.arg[i])

\* C18: every request of a StorageDB call that failed has made the call's
\* promise reject or has left a console message.
C18_NoSilentSwallow ==
    \A i \in DOMAIN op.sub :
        op.sub[i] \in {"failed", "readerr"}
            => (op.promise = "rejected" \/ Len(diag) > 0)

\* The tier write of attachment i of report id of the batch is in its store
BatchTierWritten(id, i) ==
    IF variant = "overflow"
    THEN /\ Has(overflow, BlobKey(id, i))
         /\ Get(overflow, BlobKey(id, i)) = mem[id][i].dataUrl
    ELSE Has(blobs, StoragePath(id, mem[id][i].name))

\* C13: the documents of a saveAllReports call are written all together or
\* not at all: at every moment either every report of the batch has its
\* document in the store or none has; they are all there once the call has
\* fulfilled; none is there when the call was rejected, in particular when
\* a tier write of any report failed. The commit is issued only after the
\* tier writes of every report have completed, and a completed tier write
\* stays in its store whether or not the commit happens.
C13_BatchAtomic ==
    batch.status # "none" =>
        /\ \/ \A id \in BatchIds : remote[id] = Doc(batch.cleaned[id])
           \/ \A id \in BatchIds : ~remote[id].exists
        /\ batch.status = "resolved"
              => \A id \in BatchIds : remote[id].exists
        /\ batch.status = "rejected"
              => \A id \in BatchIds : ~remote[id].exists
        /\ (\E id \in BatchIds : \E i \in DOMAIN batch.sub[id] :
                batch.sub[id][i] = "failed")
              => /\ batch.commits = 0
                 /\ \A id \in BatchIds : ~remote[id].exists
        /\ batch.commits > 0
              => \A id \in BatchIds : \A i \in DOMAIN batch.sub[id] :
                    batch.sub[id][i] \in {"na", "done"}
        /\ \A id \in BatchIds : \A i \in DOMAIN batch.sub[id] :
              batch.sub[id][i] \in {"put", "done"} => BatchTierWritten(id, i)

\* C13 witness: the call was rejected because a tier write of one report
\* failed, the tier write of the other report is in its store, and no
\* document was written.
C13_Witness ==
    /\ batch.status = "rejected"
    /\ \E id1, id2 \in BatchIds :
          /\ id1 # id2
          /\ \E i \in DOMAIN batch.sub[id1] : batch.sub[id1][i] = "failed"
          /\ \E i \in DOMAIN batch.sub[id2] :
                batch.sub[id2][i] = "done" /\ BatchTierWritten(id2, i)
    /\ \A id \in BatchIds : ~remote[id].exists

\* C14: no two StorageDB save or delete calls for one report id are in
\* flight at the same time.
C14_SameIdSerialized ==
    \A c1, c2 \in DOMAIN calls :
        (c1 # c2 /\ calls[c1].status = "pending" /\ calls[c2].status = "pending")
            => calls[c1].id # calls[c2].id

\* C17: no two reports of REPORTS have the same id.
C17_UniqueIds ==
    \A n, m \in 1..Len(REPORTS) : n # m => REPORTS[n].id # REPORTS[m].id

\* A listener the page has opened and not unsubscribed
Active(k) == listeners[k].unsubscribed = 0

\* C15: once subscribeToActivity has been called, the listener opened by the
\* most recent call is the only one the page has not unsubscribed and the
\* only one the store may still deliver to; every earlier listener has
\* received its unsubscribe call, and it received it before the listener
\* that replaced it was opened (no listener was live when one was opened).
C15_OneLiveSubscription ==
    listeners # <<>> =>
       /\ currentUnsubscribe = Len(listeners)
       /\ {k \in DOMAIN listeners : Active(k)} = {Len(listeners)}
       /\ \A k \in DOMAIN listeners :
             /\ listeners[k].live => k = Len(listeners)
             /\ k < Len(listeners) => listeners[k].unsubscribed >= 1
             /\ listeners[k].liveAtOpen = 0
       /\ listeners[Len(listeners)].live \/ listeners[Len(listeners)].failed

\* The filters were changed while the first listener was delivering
C15_Witness ==
    /\ Len(listeners) = 2
    /\ listeners[1].seen # -1
    /\ ~listeners[1].failed
    /\ listeners[1].unsubscribed = 1
    /\ ~listeners[1].live
    /\ listeners[2].live
    /\ listeners[2].userFilter # listeners[1].userFilter

\* Event e matches the filter controls of listener l
MatchesFilters(e, l) ==
    /\ l.userFilter # "" => e.username = l.userFilter
    /\ l.actionFilter # "" => e.action = l.actionFilter
    /\ l.dateFilter # 0 => e.timestamp >= DateToTime(l.dateFilter)

\* The feed shows what the current listener made of the current log
FeedFresh ==
    /\ activityFeed.by # 0
    /\ activityFeed.by = currentUnsubscribe
    /\ activityFeed.kind # "error"
    /\ listeners[activityFeed.by].seen = Len(events)

ShownIds == {activityFeed.items[i] : i \in DOMAIN activityFeed.items}

\* C16: when the feed shows the current listener's view of the log, every
\* event shown is in the log and matches the user and action filters by
\* equality and the date filter as a lower bound; the events are shown
\* newest first, at most PAGE_SIZE of them; and a matching event is left out
\* only when the page is full of newer ones. "No activity found." is shown
\* only when no event matches the user and action filters.
C16_FeedShowsMatching ==
    FeedFresh =>
       LET l == listeners[activityFeed.by]
           items == activityFeed.items
       IN /\ \A i \in DOMAIN items :
                /\ items[i] \in DOMAIN events
                /\ MatchesFilters(events[items[i]], l)
          /\ \A i \in DOMAIN items : \A j \in DOMAIN items :
                i < j => events[items[i]].timestamp > events[items[j]].timestamp
          /\ Len(items) <= PAGE_SIZE
          /\ \A k \in DOMAIN events :
                MatchesFilters(events[k], l) /\ k \notin ShownIds =>
                   /\ Len(items) = PAGE_SIZE
                   /\ \A i \in DOMAIN items :
                         events[items[i]].timestamp > events[k].timestamp
          /\ activityFeed.kind = "none-found" =>
                \A k \in DOMAIN events :
                   ~MatchesFilters(events[k], [l EXCEPT !.dateFilter = 0])

\* A date filter is set: an event of exactly that instant is shown and an
\* earlier one that matches the other filters is not
C16_Witness ==
    /\ FeedFresh
    /\ listeners[activityFeed.by].dateFilter # 0
    /\ \E i \in DOMAIN activityFeed.items :
          events[activityFeed.items[i]].timestamp =
             DateToTime(listeners[activityFeed.by].dateFilter)
    /\ \E k \in DOMAIN events :
          /\ k \notin ShownIds
          /\ MatchesFilters(events[k],
                [listeners[activityFeed.by] EXCEPT !.dateFilter = 0])
          /\ events[k].timestamp <
                DateToTime(listeners[activityFeed.by].dateFilter)

\* The page is full: more than PAGE_SIZE events match and the oldest is
\* left out
C16_PageFull ==
    /\ FeedFresh
    /\ Len(activityFeed.items) = PAGE_SIZE
    /\ \E k \in DOMAIN events :
          /\ k \notin ShownIds
          /\ MatchesFilters(events[k], listeners[activityFeed.by])

\* C19: every attachment of a stored report document has at least one
\* payload locator (a data URL, an overflow reference or a remote
\* reference).
C19_EveryAttachmentHasLocator ==
    \A id \in ReportIds :
        remote[id].exists =>
            \A i \in 1..Len(remote[id].attachments) :
                Locators(remote[id].attachments[i]) >= 1

\* C20: in the remote-blob variant, when a blob delete of deleteReport(id)
\* has failed with an error other than not-found, the document the call
\* read is still stored.
C20_FailedBlobDeleteKeepsDoc ==
    (/\ variant = "blob"
     /\ op.kind = "delete"
     /\ op.data.exists
     /\ \E i \in DOMAIN op.sub : op.sub[i] = "failed")
        => remote[op.id].exists

\* C21: once the start-up race is decided, the loser changes nothing. A
\* getAllReports that settles after the timeout fired leaves REPORTS, the
\* console and the position of the start-up code as they are; so does a
\* timeout that fires after getAllReports settled the race, and the start-up
\* code never ends with an exception.
C21_LoserDiscarded ==
    /\ [][ ( /\ loadPc = "done"
             /\ \/ op.promise = "pending" /\ op'.promise # "pending"
                \/ timer = "armed" /\ timer' = "fired" )
           => /\ REPORTS' = REPORTS
              /\ diag' = diag
              /\ loadPc' = "done" ]_vars
    /\ [](loadPc # "threw")

\* C21 witness: the timeout fired first, then getAllReports resolved with a
\* non-empty list, and REPORTS is still empty.
C21_Witness ==
    /\ loadPc = "done" /\ timer = "fired"
    /\ op.kind = "loadAll" /\ op.promise = "resolved"
    /\ Len(listView) > 0
    /\ REPORTS = <<>>
    /\ diag = <<[level |-> "error", e |-> "DB timeout"]>>

\* The other order: getAllReports won with a non-empty list, then the
\* timeout fired
C21_TimeoutLost ==
    /\ loadPc = "done" /\ timer = "fired"
    /\ REPORTS # <<>>
    /\ diag = <<[level |-> "log", e |-> "loaded"]>>

\* Listener k has just handled a snapshot
SnapshotHandled(k) ==
    /\ k \in DOMAIN listeners
    /\ Len(listeners') = Len(listeners)
    /\ listeners'[k].seen # listeners[k].seen

\* C22: when a listener has handled a snapshot, the feed holds the events of
\* that snapshot that pass the date filter, in snapshot order, each once,
\* and nothing else, whatever it held before; for an empty snapshot it
\* holds the "No activity found." message alone.
C22_SnapshotReplacesFeed ==
    [][ \A k \in 1..MaxSubs :
          SnapshotHandled(k) =>
             LET docs == QuerySnapshot(listeners[k])
                 items == activityFeed'.items
             IN /\ activityFeed'.by = k
                /\ items = SelectShown(docs, listeners[k].dateFilter)
                /\ \A i \in DOMAIN items : \A j \in DOMAIN items :
                      i # j => items[i] # items[j]
                /\ activityFeed'.kind =
                      IF docs = <<>> THEN "none-found" ELSE "items" ]_vars

\* C22 witness: the first listener showed every event; the filters were
\* changed to one user and the second listener's snapshot is shown: the
\* other user's events are gone from the feed.
C22_Witness ==
    /\ Len(listeners) = 2
    /\ listeners[1].seen # -1
    /\ listeners[1].userFilter = "" /\ listeners[1].actionFilter = ""
    /\ listeners[1].dateFilter = 0
    /\ listeners[2].userFilter = "alice"
    /\ activityFeed.by = 2 /\ activityFeed.kind = "items"
    /\ activityFeed.items # <<>>
    /\ \E k \in DOMAIN events :
          events[k].username = "bob" /\ k \notin ShownIds

\* C23: once every StorageDB call the handlers issued has settled, a report
\* id is in REPORTS exactly when its document exists in the remote store.
C23_ListMatchesStore ==
    (\A c \in DOMAIN calls : calls[c].status # "pending") =>
        \A id \in UiIds :
            (\E n \in 1..Len(REPORTS) : REPORTS[n].id = id) <=> remote[id].exists

\* The submit handler has just run its edit branch
EditSubmitted ==
    /\ Len(calls') = Len(calls) + 1
    /\ calls'[Len(calls')].handler = "edit"

Meta(att) == <<att.name, att.type, att.size>>

\* No StorageDB operation changes name, type or size of an attachment: the
\* document handed to set, the stored document and the list view carry those
\* of the attachments they were made from
AttachmentMetaKept ==
    /\ op.kind \in SaveKinds =>
          \A i \in 1..Len(op.cleaned) : Meta(op.cleaned[i]) = Meta(op.arg[i])
    /\ op.kind = "get" /\ op.promise = "resolved" /\ op.data.exists =>
          \A i \in 1..Len(op.data.attachments) :
              Meta(op.data.attachments[i]) = Meta(remote[op.id].attachments[i])

\* C25: the activity log only grows, one event at a time, at its end: every
\* step leaves the events already logged as they are, and a step that
\* changes a listener, currentUnsubscribe or the feed leaves the log as it
\* is.
C25_ActivityAppendOnly ==
    [][ /\ Len(events') \in {Len(events), Len(events) + 1}
        /\ SubSeq(events', 1, Len(events)) = events
        /\ <<listeners, currentUnsubscribe, activityFeed>>'
              # <<listeners, currentUnsubscribe, activityFeed>>
           => events' = events ]_vars

\* C25 witness: an event was logged while the page was open, after the
\* events found at start, and the current listener has shown the feed with
\* it.
C25_Witness ==
    /\ Appended # {}
    /\ Len(events) > Cardinality(Appended)
    /\ FeedFresh
    /\ \E k \in Appended : k \in ShownIds

\* The payload locators of an attachment
PayloadLocator(att) == <<att.dataUrl, att.storageUrl, att.storagePath>>

\* The set of a saveReport call has just replaced the stored document
SaveStored ==
    /\ op.kind = "save" /\ op.phase = "set"
    /\ remote[op.id].exists
    /\ remote'[op.id] # remote[op.id]

\* C26: when saveReport is called with a report as getAllReports returned
\* it, the document it writes has, attachment by attachment, the payload
\* locators the stored document had before.
C26_ListSaveKeepsPayloads ==
    [][ ( /\ SaveStored
          /\ ListIndex(op.id) # 0
          /\ listView = ListFrom(remote, 1)
          /\ op.arg = listView[ListIndex(op.id)].attachments )
        => /\ Len(remote'[op.id].attachments) = Len(remote[op.id].attachments)
           /\ \A i \in 1..Len(remote[op.id].attachments) :
                 PayloadLocator(remote'[op.id].attachments[i])
                    = PayloadLocator(remote[op.id].attachments[i]) ]_vars

\* The report getReport returns on this device for the stored document of
\* id when the overflow store answers every lookup
RestoredAtts(id) ==
    [i \in 1..Len(remote[id].attachments) |->
        LET att == remote[id].attachments[i]
        IN IF IsLocalRef(att.dataUrl)
           THEN [att EXCEPT !.dataUrl = BlobLocalResult(att.dataUrl.key)]
           ELSE att]

\* C27: local-overflow variant, on a device whose overflow store lacks the
\* payload of an attachment. When saveReport is called with the report
\* getReport returned there, the document it writes still has the overflow
\* reference of every attachment that had one.
C27_ForeignSaveKeepsRef ==
    [][ ( /\ variant = "overflow"
          /\ SaveStored
          /\ prev.kind = "get" /\ prev.promise = "resolved"
          /\ op.arg = RestoredAtts(op.id)
          /\ \E i \in 1..Len(remote[op.id].attachments) :
                /\ IsLocalRef(remote[op.id].attachments[i].dataUrl)
                /\ ~Has(overflow, remote[op.id].attachments[i].dataUrl.key) )
        => \A i \in 1..Len(remote[op.id].attachments) :
              IsLocalRef(remote[op.id].attachments[i].dataUrl)
                 => remote'[op.id].attachments[i].dataUrl
                       = remote[op.id].attachments[i].dataUrl ]_vars

\* C29: during and after a saveReport or saveAllReports call, the caller's
\* report has the attachments it had when the call was made.
C29_SaveLeavesArgument ==
    op.kind \in SaveKinds => mem[op.id] = op.arg

\* C28: remote-blob variant. Any two attachments with different content
\* that a save has uploaded are stored under distinct blob paths.
C28_DistinctBlobPaths ==
    (variant = "blob" /\ op.kind \in SaveKinds /\ op.promise = "resolved") =>
        \A i \in DOMAIN op.cleaned : \A j \in DOMAIN op.cleaned :
            (/\ i # j /\ op.arg[i] # op.arg[j]
             /\ op.sub[i] = "done" /\ op.sub[j] = "done")
                => op.cleaned[i].storagePath # op.cleaned[j].storagePath

\* logSearch call n was followed by no other call for SEARCH_DEBOUNCE_MS
QuietAfter(n) ==
    \A m \in DOMAIN searches :
        m > n => searches[m].at >= searches[n].at + SEARCH_DEBOUNCE_MS

\* C30: at most one debounce timer is pending. Every search event was
\* written SEARCH_DEBOUNCE_MS or more after a logSearch call that no other
\* call followed before the event was written; it carries the text of that
\* call without its leading and trailing whitespace, and that text is not
\* empty. There are no more search events than such calls.
C30_SearchDebounced ==
    /\ Cardinality(timeouts) <= 1
    /\ \A k \in DOMAIN events :
          /\ events[k].action = "search"
          /\ events[k].details # <<>>
          /\ events[k].details[1] \notin Whitespace
          /\ events[k].details[Len(events[k].details)] \notin Whitespace
          /\ \E n \in DOMAIN searches :
                /\ events[k].details = Trim(searches[n].query)
                /\ events[k].timestamp >= searches[n].at + SEARCH_DEBOUNCE_MS
                /\ \A m \in DOMAIN searches :
                      m > n => searches[m].at >= events[k].timestamp
    /\ Len(events) <=
          Cardinality({n \in DOMAIN searches :
                          QuietAfter(n) /\ Trim(searches[n].query) # <<>>})

\* C30 witness: two calls less than SEARCH_DEBOUNCE_MS apart, the second
\* with surrounding whitespace; one event, with the trimmed text of the
\* second, written SEARCH_DEBOUNCE_MS after it.
C30_Witness ==
    /\ Len(searches) = 2
    /\ searches[1].query = <<"a">>
    /\ searches[2].query = <<" ", "a", " ", "b", " ">>
    /\ searches[2].at > searches[1].at
    /\ searches[2].at < searches[1].at + SEARCH_DEBOUNCE_MS
    /\ Len(events) = 1
    /\ events[1].details = <<"a", " ", "b">>
    /\ events[1].timestamp = searches[2].at + SEARCH_DEBOUNCE_MS
    /\ timeouts = {}

\* A burst that ends with only whitespace writes nothing
C30_WhitespaceDropped ==
    /\ Len(searches) = 2
    /\ searches[1].query = <<"a">>
    /\ searches[2].query = <<" ">>
    /\ clock >= searches[2].at + SEARCH_DEBOUNCE_MS
    /\ timeouts = {}
    /\ events = <<>>

====
